---- MODULE Spec2Model ----
(***************************************************************************)
(* A model of anagramci's core: the DAWG word index (dawg.ts), the letter  *)
(* pool arithmetic and the mapping normalizer (anagram.ts), the settings   *)
(* route that saves the mapping pairs (routes/settings.ts), and the        *)
(* mapping and attempt stores with the routes over them (store/mappings.ts,*)
(* store/attempts.ts, routes/attempts.ts, routes/pages.ts), also with      *)
(* several requests in flight in the one server process (index.ts).        *)
(*                                                                         *)
(* Strings are sequences of one-character strings, so that iterating a     *)
(* string (for (const ch of word)) is iterating the sequence.              *)
(***************************************************************************)
EXTENDS Integers, Sequences, FiniteSets, TLC

VARIABLES
  vocab,      \* the words handed to new DAWG(words)
  nodes,      \* the DAWGNode objects, by handle; this.root is handle 1
  trie,       \* the nodes as they were when the insert loop ended
  dawgPc,     \* position in the constructor: "idle", "insert", "compress", "ready"
  inserted,   \* number of words the constructor's loop has inserted
  compressed, \* outcome of compress(): "none", "complete", "timeout"
  call,       \* the last query made on the finished DAWG, with its result
  form,       \* the form values of the PUT /settings/mappings request
  mappingFile,\* data/mappings/<wordListId>.json: its pairs and version
  normCall,   \* the last call of buildMappingNormalizer, with its result
  poolCall,   \* the last call of a letter pool function, with its result
  mappingDir, \* data/mappings: the data of each <wordListId>.json it holds
  attemptDir, \* data/attempts: the attempt of each <id>.json it holds
  handled,    \* the last request the routes handled, with its answer
  saves,      \* history: the saveMappings calls made so far, by word list
  savedSince, \* history: a save for the attempt's word list came after its
              \* creation or last refresh
  inflight,   \* the requests the server has taken and not answered yet, each
              \* with the place its handler is at
  applied     \* history: the requests that have written the attempt, in the
              \* order of their writes

dawgVars == <<vocab, nodes, trie, dawgPc, inserted, compressed, call>>
normVars == <<form, mappingFile, normCall>>
poolVars == <<poolCall>>
requestVars == <<inflight, applied>>
storeVars == <<mappingDir, attemptDir, handled, saves, savedSince, requestVars>>

vars == <<dawgVars, normVars, poolVars, storeVars>>

----------------------------------------------------------------------------
(* Bounds of the model.                                                    *)

MaxWords == 2      \* words in a vocabulary
MaxWordLen == 2    \* letters in a vocabulary word
MaxCount == 2      \* highest count of one letter in a pool
MaxBudget == 5     \* time checks compress() may pass before its limit is over
MaxPairs == 2      \* pairs in a mapping, rows in the settings form
MaxSaves == 2      \* saves of one mapping file
MaxText == 2       \* characters in a source text or a chosen word
MaxChosen == 2     \* chosen words
MaxInFlight == 2   \* requests for one attempt in flight together

----------------------------------------------------------------------------
(* Characters and strings.                                                 *)

Space == " "
Letters == {"a", "b"}

\* UTF-16 code units, the order Array.prototype.sort compares by.
CodeUnit(ch) ==
  CASE ch = " " -> 32
    [] ch = "A" -> 65
    [] ch = "a" -> 97
    [] ch = "b" -> 98
    [] ch = "c" -> 99
    [] OTHER -> 0

\* s < t as JavaScript compares two strings.
RECURSIVE StrLess(_, _)
StrLess(s, t) ==
  IF t = <<>> THEN FALSE
  ELSE IF s = <<>> THEN TRUE
  ELSE IF Head(s) = Head(t) THEN StrLess(Tail(s), Tail(t))
  ELSE CodeUnit(Head(s)) < CodeUnit(Head(t))

\* xs, sorted, with the string x put before the first element greater than it.
RECURSIVE InsertString(_, _)
InsertString(x, xs) ==
  IF xs = <<>> THEN <<x>>
  ELSE IF StrLess(x, Head(xs)) THEN <<x>> \o xs
  ELSE <<Head(xs)>> \o InsertString(x, Tail(xs))

\* array.sort() on an array of strings.
RECURSIVE SortStrings(_)
SortStrings(xs) ==
  IF xs = <<>> THEN <<>>
  ELSE InsertString(Head(xs), SortStrings(Tail(xs)))

\* parts.join(sep) for parts that are strings.
RECURSIVE Join(_, _)
Join(parts, sep) ==
  IF parts = <<>> THEN <<>>
  ELSE IF Len(parts) = 1 THEN parts[1]
  ELSE parts[1] \o sep \o Join(Tail(parts), sep)

\* The characters of s that are not the separator.
RECURSIVE StripSpaces(_)
StripSpaces(s) ==
  IF s = <<>> THEN <<>>
  ELSE IF Head(s) = Space THEN StripSpaces(Tail(s))
  ELSE <<Head(s)>> \o StripSpaces(Tail(s))

\* All sequences over S of length at most n.
SeqsUpTo(S, n) == UNION {[1..k -> S] : k \in 0..n}

----------------------------------------------------------------------------
(* dawg.ts: the nodes.  A Map is modelled by the sequence of its entries   *)
(* in insertion order, which is the order a Map iterates in.               *)

\* new DAWGNode()
DAWGNode == [children |-> <<>>, isEnd |-> FALSE, words |-> <<>>]

\* children.get(ch): the child's handle, or 0 for undefined
RECURSIVE ChildGet(_, _)
ChildGet(children, ch) ==
  IF children = <<>> THEN 0
  ELSE IF Head(children)[1] = ch THEN Head(children)[2]
  ELSE ChildGet(Tail(children), ch)

\* children.set(ch, child): an existing key keeps its place
ChildSet(children, ch, child) ==
  IF \E i \in 1..Len(children) : children[i][1] = ch
  THEN [i \in 1..Len(children) |->
          IF children[i][1] = ch THEN <<ch, child>> ELSE children[i]]
  ELSE Append(children, <<ch, child>>)

\* DAWG.insert, from the node `node` on, for the rest `rest` of `word`
RECURSIVE InsertFrom(_, _, _, _)
InsertFrom(ns, node, rest, word) ==
  IF rest = <<>>
  THEN [ns EXCEPT ![node].isEnd = TRUE, ![node].words = Append(@, word)]
  ELSE IF Head(rest) = Space THEN InsertFrom(ns, node, Tail(rest), word)
  ELSE LET child == ChildGet(ns[node].children, Head(rest))
       IN IF child # 0
          THEN InsertFrom(ns, child, Tail(rest), word)
          ELSE LET fresh == Len(ns) + 1
                   ns2 == Append(
                     [ns EXCEPT ![node].children = ChildSet(@, Head(rest), fresh)],
                     DAWGNode)
               IN InsertFrom(ns2, fresh, Tail(rest), word)

\* DAWG.insert that takes every character for a separator
InsertAllAtRoot(ns, word) == InsertFrom(ns, 1, <<>>, word)

\* DAWG.insert that drops a word without letters
InsertSkipEmpty(ns, word) ==
  IF StripSpaces(word) = <<>> THEN ns ELSE InsertFrom(ns, 1, word, word)

insert(ns, word) == InsertFrom(ns, 1, word, word)

----------------------------------------------------------------------------
(* dawg.ts: compress().  `t` counts the readings of performance.now()      *)
(* made so far and `budget` is how many of them come before the time       *)
(* limit is over (the clock only moves forward); NoLimit: never over.      *)

NoLimit == MaxBudget + 1

\* performance.now() - startTime > TIME_LIMIT, at the reading after t
TimeOver(t, budget) == budget # NoLimit /\ t + 1 > budget

\* [...node.children.keys()].sort()
RECURSIVE InsertKey(_, _)
InsertKey(x, xs) ==
  IF xs = <<>> THEN <<x>>
  ELSE IF CodeUnit(x) < CodeUnit(Head(xs)) THEN <<x>> \o xs
  ELSE <<Head(xs)>> \o InsertKey(x, Tail(xs))

RECURSIVE SortKeys(_)
SortKeys(xs) ==
  IF xs = <<>> THEN <<>> ELSE InsertKey(Head(xs), SortKeys(Tail(xs)))

sortedKeys(node) ==
  SortKeys([i \in 1..Len(node.children) |-> node.children[i][1]])

\* the words of a node as they stand in its signature
WordsPartNone(words) == <<>>

wordsPart(words) ==
  IF Len(words) > 0 THEN <<"W">> \o Join(SortStrings(words), <<"|">>) ELSE <<>>

\* the signature string put together from a node and its children's parts
signatureOf(node, parts) ==
  <<IF node.isEnd THEN "1" ELSE "0">> \o wordsPart(node.words)
    \o <<"[">> \o Join(parts, <<",">>) \o <<"]">>

\* computeSignature(node): [ok, sig, ns, t]; ok = FALSE is the null result.
\* node.words.sort() sorts the node's own array, so the nodes change too.
RECURSIVE computeSignature(_, _, _, _)
RECURSIVE SignatureParts(_, _, _, _, _, _)
computeSignature(ns, node, t, budget) ==
  IF TimeOver(t, budget) THEN [ok |-> FALSE, sig |-> <<>>, ns |-> ns, t |-> t + 1]
  ELSE LET r == SignatureParts(ns, node, sortedKeys(ns[node]), <<>>, t + 1, budget)
       IN IF ~r.ok THEN [ok |-> FALSE, sig |-> <<>>, ns |-> r.ns, t |-> r.t]
          ELSE LET ns2 == [r.ns EXCEPT ![node].words = SortStrings(@)]
               IN [ok |-> TRUE, sig |-> signatureOf(r.ns[node], r.parts),
                   ns |-> ns2, t |-> r.t]

\* the loop over sortedKeys, from the keys `keys` on
SignatureParts(ns, node, keys, parts, t, budget) ==
  IF keys = <<>> THEN [ok |-> TRUE, parts |-> parts, ns |-> ns, t |-> t]
  ELSE LET key == Head(keys)
           child == ChildGet(ns[node].children, key)
           c == computeSignature(ns, child, t, budget)
       IN IF ~c.ok THEN [ok |-> FALSE, parts |-> parts, ns |-> c.ns, t |-> c.t]
          ELSE SignatureParts(c.ns, node, Tail(keys),
                              Append(parts, <<key, ":">> \o c.sig), c.t, budget)

\* signatureMap.get(sig): the node's handle, or 0 for undefined
signatureGet(signatureMap, sig) ==
  IF sig \in DOMAIN signatureMap THEN signatureMap[sig] ELSE 0

\* dedup(node): [ok, node, ns, signatureMap, t]; ok = FALSE is the null result.
RECURSIVE dedup(_, _, _, _, _)
RECURSIVE DedupChildren(_, _, _, _, _, _)
dedup(ns, node, signatureMap, t, budget) ==
  IF TimeOver(t, budget)
  THEN [ok |-> FALSE, node |-> 0, ns |-> ns, signatureMap |-> signatureMap, t |-> t + 1]
  ELSE LET r == DedupChildren(ns, node, 1, signatureMap, t + 1, budget)
       IN IF ~r.ok THEN r
          ELSE LET s == computeSignature(r.ns, node, r.t, budget)
                   existing == signatureGet(r.signatureMap, s.sig)
               IN IF ~s.ok
                  THEN [ok |-> FALSE, node |-> 0, ns |-> s.ns,
                        signatureMap |-> r.signatureMap, t |-> s.t]
                  ELSE IF existing # 0
                  THEN [ok |-> TRUE, node |-> existing, ns |-> s.ns,
                        signatureMap |-> r.signatureMap, t |-> s.t]
                  ELSE [ok |-> TRUE, node |-> node, ns |-> s.ns,
                        signatureMap |-> (s.sig :> node) @@ r.signatureMap, t |-> s.t]

\* the loop over node.children, from its i-th entry on
DedupChildren(ns, node, i, signatureMap, t, budget) ==
  IF i > Len(ns[node].children)
  THEN [ok |-> TRUE, node |-> node, ns |-> ns, signatureMap |-> signatureMap, t |-> t]
  ELSE LET key == ns[node].children[i][1]
           child == ns[node].children[i][2]
           d == dedup(ns, child, signatureMap, t, budget)
       IN IF ~d.ok THEN d
          ELSE DedupChildren(
                 [d.ns EXCEPT ![node].children = ChildSet(@, key, d.node)],
                 node, i + 1, d.signatureMap, d.t, budget)

\* compress() that gives the nodes up when the time is over: a new root
CompressDropsOnTimeout(ns, budget) ==
  LET r == dedup(ns, 1, <<>>, 0, budget)
  IN IF r.ok THEN r ELSE [r EXCEPT !.ns = <<DAWGNode>>]

\* compress(): dedup(this.root) with an empty signatureMap
compress(ns, budget) == dedup(ns, 1, <<>>, 0, budget)

----------------------------------------------------------------------------
(* dawg.ts: the queries.  A Map<string, number> or Map<string, string> is  *)
(* a function on its keys.                                                 *)

\* what contains answers at the node the walk ended on
ContainsAtAnyNode(node) == TRUE

containsAt(node) == node.isEnd

\* DAWG.contains(word), from the node `node` on
RECURSIVE ContainsFrom(_, _, _)
ContainsFrom(ns, node, rest) ==
  IF rest = <<>> THEN containsAt(ns[node])
  ELSE IF Head(rest) = Space THEN ContainsFrom(ns, node, Tail(rest))
  ELSE LET child == ChildGet(ns[node].children, Head(rest))
       IN IF child = 0 THEN FALSE ELSE ContainsFrom(ns, child, Tail(rest))

contains(ns, word) == ContainsFrom(ns, 1, word)

\* mapping.get(ch) ?? ch; a mapping left out acts as the empty Map
normalize(mapping, ch) == IF ch \in DOMAIN mapping THEN mapping[ch] ELSE ch

\* word.length in place of the letterCount loop
LetterCountLength(word) == Len(word)

\* the letterCount loop of dfs
RECURSIVE letterCount(_)
letterCount(word) ==
  IF word = <<>> THEN 0
  ELSE (IF Head(word) # Space THEN 1 ELSE 0) + letterCount(Tail(word))

\* seen.has(word)
SeenNever(seen, word) == FALSE

seenHas(seen, word) == word \in seen

\* the loop over node.words in dfs; st = [pool, results, seen]
RECURSIVE EmitWords(_, _)
EmitWords(words, st) ==
  IF words = <<>> THEN st
  ELSE LET word == Head(words)
       IN IF ~seenHas(st.seen, word)
          THEN EmitWords(Tail(words),
                 [st EXCEPT !.seen = @ \cup {word},
                            !.results = Append(@, [word |-> word,
                                                   letterCount |-> letterCount(word)])])
          ELSE EmitWords(Tail(words), st)

\* count !== undefined && count >= 0
CanTakeAtZero(pool, normalized) == normalized \in DOMAIN pool /\ pool[normalized] >= 0

\* count !== undefined && count > 0, for count = pool.get(normalized)
canTake(pool, normalized) == normalized \in DOMAIN pool /\ pool[normalized] > 0

\* pool.set(normalized, count - 1)
TakeNothing(pool, normalized, count) == pool

take(pool, normalized, count) == [pool EXCEPT ![normalized] = count - 1]

\* pool.set(normalized, count)
RestoreNothing(pool, normalized, count) == pool

\* pool.set(normalized, count + 1)
RestoreOneMore(pool, normalized, count) == [pool EXCEPT ![normalized] = count + 1]

restore(pool, normalized, count) == [pool EXCEPT ![normalized] = count]

\* dfs(node); st = [pool, results, seen]
RECURSIVE dfs(_, _, _, _)
RECURSIVE DfsEdges(_, _, _, _, _)
dfs(ns, mapping, node, st) ==
  DfsEdges(ns, mapping, node, 1,
           IF ns[node].isEnd THEN EmitWords(ns[node].words, st) ELSE st)

\* the loop over node.children, from its i-th entry on
DfsEdges(ns, mapping, node, i, st) ==
  IF i > Len(ns[node].children) THEN st
  ELSE LET edgeCh == ns[node].children[i][1]
           child == ns[node].children[i][2]
           normalized == normalize(mapping, edgeCh)
       IN IF canTake(st.pool, normalized)
          THEN LET count == st.pool[normalized]
                   down == dfs(ns, mapping, child,
                               [st EXCEPT !.pool = take(@, normalized, count)])
               IN DfsEdges(ns, mapping, node, i + 1,
                           [down EXCEPT !.pool = restore(@, normalized, count)])
          ELSE DfsEdges(ns, mapping, node, i + 1, st)

\* DAWG.findAvailable(pool, mapping): [pool, results, seen] when it returns
findAvailable(ns, pool, mapping) ==
  dfs(ns, mapping, 1, [pool |-> pool, results |-> <<>>, seen |-> {}])

----------------------------------------------------------------------------
(* anagram.ts: the mapping normalizer and the letter pool.                 *)

\* map.set(key, value) on a Map seen as a function
MapSet(map, key, value) == (key :> value) @@ map

\* map.get(key) || 0 on a Map of counts
CountOf(pool, key) == IF key \in DOMAIN pool THEN pool[key] ELSE 0

\* map.delete(key)
MapDelete(map, key) == [k \in DOMAIN map \ {key} |-> map[k]]

\* map.set(from, to), the first statement of the loop body
SetSwapped(map, from, to) == MapSet(map, to, from)

SetFirstWins(map, from, to) == IF from \in DOMAIN map THEN map ELSE MapSet(map, from, to)

setFromTo(map, from, to) == MapSet(map, from, to)

\* the loop of buildMappingNormalizer over the pairs left
RECURSIVE BuildFrom(_, _)
BuildFrom(map, pairs) ==
  IF pairs = <<>> THEN map
  ELSE LET from == Head(pairs)[1]
           to == Head(pairs)[2]
           m1 == setFromTo(map, from, to)
           m2 == IF to \notin DOMAIN m1 THEN MapSet(m1, to, to) ELSE m1
       IN BuildFrom(m2, Tail(pairs))

buildMappingNormalizer(pairs) == BuildFrom(<<>>, pairs)

normalizeChar(ch, mapping) == IF ch \in DOMAIN mapping THEN mapping[ch] ELSE ch

\* toLocaleLowerCase("tr-TR") of one character; "u0131" stands for the
\* dotless i (U+0131) and "u0130" for the dotted capital I (U+0130)
LowerChar(ch) ==
  CASE ch = "A" -> "a"
    [] ch = "B" -> "b"
    [] ch = "I" -> "u0131"
    [] ch = "u0130" -> "i"
    [] OTHER -> ch

toLocaleLowerCase(text) == [i \in 1..Len(text) |-> LowerChar(text[i])]

\* the loop of textToPool over the characters left
RECURSIVE TallyFrom(_, _, _)
TallyFrom(pool, rest, mapping) ==
  IF rest = <<>> THEN pool
  ELSE IF Head(rest) = Space THEN TallyFrom(pool, Tail(rest), mapping)
  ELSE LET normalized == normalizeChar(Head(rest), mapping)
       IN TallyFrom(MapSet(pool, normalized, CountOf(pool, normalized) + 1),
                    Tail(rest), mapping)

textToPool(text, mapping) == TallyFrom(<<>>, toLocaleLowerCase(text), mapping)

\* the loop of subtractWord that gives up at the first letter the pool lacks
RECURSIVE SubtractUntilMissing(_, _, _)
SubtractUntilMissing(result, rest, mapping) ==
  IF rest = <<>> THEN result
  ELSE IF Head(rest) = Space THEN SubtractUntilMissing(result, Tail(rest), mapping)
  ELSE LET normalized == normalizeChar(Head(rest), mapping)
           count == CountOf(result, normalized)
       IN IF count = 0 THEN result
          ELSE IF count <= 1
          THEN SubtractUntilMissing(MapDelete(result, normalized), Tail(rest), mapping)
          ELSE SubtractUntilMissing(MapSet(result, normalized, count - 1),
                                    Tail(rest), mapping)

\* the loop of subtractWord that deletes a letter only once its count is 0
RECURSIVE SubtractStoresZero(_, _, _)
SubtractStoresZero(result, rest, mapping) ==
  IF rest = <<>> THEN result
  ELSE IF Head(rest) = Space THEN SubtractStoresZero(result, Tail(rest), mapping)
  ELSE LET normalized == normalizeChar(Head(rest), mapping)
           count == CountOf(result, normalized)
       IN IF count <= 0
          THEN SubtractStoresZero(MapDelete(result, normalized), Tail(rest), mapping)
          ELSE SubtractStoresZero(MapSet(result, normalized, count - 1),
                                  Tail(rest), mapping)

\* the loop of subtractWord that deletes a letter only when its count is 1
RECURSIVE SubtractGoesNegative(_, _, _)
SubtractGoesNegative(result, rest, mapping) ==
  IF rest = <<>> THEN result
  ELSE IF Head(rest) = Space THEN SubtractGoesNegative(result, Tail(rest), mapping)
  ELSE LET normalized == normalizeChar(Head(rest), mapping)
           count == CountOf(result, normalized)
       IN IF count = 1
          THEN SubtractGoesNegative(MapDelete(result, normalized), Tail(rest), mapping)
          ELSE SubtractGoesNegative(MapSet(result, normalized, count - 1),
                                    Tail(rest), mapping)

\* the loop of subtractWord over the characters left
RECURSIVE SubtractFrom(_, _, _)
SubtractFrom(result, rest, mapping) ==
  IF rest = <<>> THEN result
  ELSE IF Head(rest) = Space THEN SubtractFrom(result, Tail(rest), mapping)
  ELSE LET normalized == normalizeChar(Head(rest), mapping)
           count == CountOf(result, normalized)
       IN IF count <= 1
          THEN SubtractFrom(MapDelete(result, normalized), Tail(rest), mapping)
          ELSE SubtractFrom(MapSet(result, normalized, count - 1), Tail(rest), mapping)

subtractWord(pool, word, mapping) == SubtractFrom(pool, toLocaleLowerCase(word), mapping)

\* The Map objects a caller of subtractWord holds: `heap` is the sequence of
\* the Maps made so far, a Map is known by its place in it.
\* const result = pool: no new Map, the result is the Map passed in
MapShared(heap, pool) == [heap |-> heap, ref |-> pool]

\* new Map(pool): a new Map with the entries of the Map `pool`
newMap(heap, pool) == [heap |-> Append(heap, heap[pool]), ref |-> Len(heap) + 1]

\* subtractWord(pool, word, mapping) on Map objects: the loop acts on result
subtractWordOn(heap, pool, word, mapping) ==
  LET result == newMap(heap, pool)
  IN [heap |-> [result.heap EXCEPT
                  ![result.ref] = SubtractFrom(@, toLocaleLowerCase(word), mapping)],
      ref |-> result.ref]

\* the loop of computeRemainingPool over the words left
RECURSIVE SubtractAll(_, _, _)
SubtractAll(pool, words, mapping) ==
  IF words = <<>> THEN pool
  ELSE SubtractAll(subtractWord(pool, Head(words), mapping), Tail(words), mapping)

computeRemainingPool(sourceText, chosenWords, mapping) ==
  SubtractAll(textToPool(sourceText, mapping), chosenWords, mapping)

\* masks.push(usedCount >= available)
OverflowAtStrict(usedCount, available) == usedCount > available

overflowAt(usedCount, available) == usedCount >= available

\* the loop of charOverflowMasks over the characters left of one word
RECURSIVE MaskFrom(_, _, _, _, _)
MaskFrom(rest, used, masks, pool, mapping) ==
  IF rest = <<>> THEN masks
  ELSE IF Head(rest) = Space
  THEN MaskFrom(Tail(rest), used, Append(masks, FALSE), pool, mapping)
  ELSE LET normalized == normalizeChar(Head(rest), mapping)
           usedCount == CountOf(used, normalized)
           available == CountOf(pool, normalized)
       IN MaskFrom(Tail(rest), MapSet(used, normalized, usedCount + 1),
                   Append(masks, overflowAt(usedCount, available)), pool, mapping)

\* chosenWords.map(...) of charOverflowMasks, over the words left
RECURSIVE MasksFrom(_, _, _)
MasksFrom(pool, words, mapping) ==
  IF words = <<>> THEN <<>>
  ELSE <<MaskFrom(toLocaleLowerCase(Head(words)), <<>>, <<>>, pool, mapping)>>
       \o MasksFrom(subtractWord(pool, Head(words), mapping), Tail(words), mapping)

charOverflowMasks(sourceText, chosenWords, mapping) ==
  MasksFrom(textToPool(sourceText, mapping), chosenWords, mapping)

----------------------------------------------------------------------------
(* The DAWG: construction, then queries.                                   *)

\* Vocabulary words: every letter string up to MaxWordLen, a two-word entry
\* and an entry that is only a separator.
DawgWords ==
  SeqsUpTo(Letters, MaxWordLen) \cup {<<"a", Space, "b">>, <<Space>>}

Vocabularies == SeqsUpTo(DawgWords, MaxWords)

\* Pools: each letter absent or held 1..MaxCount times.
DawgPools == UNION {[K -> 1..MaxCount] : K \in SUBSET Letters}

\* Mappings: none, and the one built from the pair b -> a.
DawgMappings == {<<>>, buildMappingNormalizer(<<<<"b", "a">>>>)}

NoCall ==
  [op |-> "none", word |-> <<>>, found |-> FALSE, pool |-> <<>>,
   mapping |-> <<>>, poolAfter |-> <<>>, results |-> <<>>, seen |-> {},
   stack |-> <<>>]

NormIdle == [via |-> "none", pairs |-> <<>>, map |-> <<>>]
PoolIdle ==
  [op |-> "none", sourceText |-> <<>>, chosenWords |-> <<>>, mapping |-> <<>>,
   pool |-> <<>>, masks |-> <<>>, before |-> <<>>, word |-> <<>>, done |-> 0,
   heap |-> <<>>, passed |-> 0, ref |-> 0]
NoForm == [from |-> <<>>, to |-> <<>>]
NoFile == [pairs |-> <<>>, version |-> 0]

\* The word lists settings are saved for, and the id of the attempt on disk.
WordListIds == {"w1", "w2"}
AttemptIds == {"t1"}

NoRequest ==
  [route |-> "none", status |-> 0, id |-> "", wordListId |-> "", pairs |-> <<>>,
   ci |-> 0, stale |-> FALSE]

\* no request is taken and handled on its own
NotServing == [NoRequest EXCEPT !.route = "off"]

\* the data directories hold no file, and no request is taken
StoreIdle ==
  /\ mappingDir = <<>>
  /\ attemptDir = <<>>
  /\ handled = NotServing
  /\ saves = [w \in WordListIds |-> 0]
  /\ savedSince = [id \in AttemptIds |-> FALSE]
  /\ inflight = <<>>
  /\ applied = <<>>

\* new DAWG(words) has made the root and is about to insert
DawgInit ==
  /\ vocab \in Vocabularies
  /\ nodes = <<DAWGNode>>
  /\ trie = <<>>
  /\ dawgPc = "insert"
  /\ inserted = 0
  /\ compressed = "none"
  /\ call = NoCall
  /\ form = NoForm
  /\ mappingFile = NoFile
  /\ normCall = NormIdle
  /\ poolCall = PoolIdle
  /\ StoreIdle

\* one turn of the constructor's loop: this.insert(word)
InsertWord ==
  /\ dawgPc = "insert"
  /\ inserted < Len(vocab)
  /\ nodes' = insert(nodes, vocab[inserted + 1])
  /\ inserted' = inserted + 1
  /\ UNCHANGED <<vocab, trie, dawgPc, compressed, call, normVars, poolVars, storeVars>>

\* this.compress(), the constructor's last statement; the time it takes is
\* the machine's choice
Compress ==
  /\ dawgPc = "insert"
  /\ inserted = Len(vocab)
  /\ \E budget \in 0..NoLimit :
       LET r == compress(nodes, budget)
       IN /\ nodes' = r.ns
          /\ compressed' = IF r.ok THEN "complete" ELSE "timeout"
  /\ trie' = nodes
  /\ dawgPc' = "ready"
  /\ UNCHANGED <<vocab, inserted, call, normVars, poolVars, storeVars>>

\* dawg.contains(word)
Contains ==
  /\ dawgPc = "ready"
  /\ call.op = "none"
  /\ \E word \in DawgWords :
       call' = [NoCall EXCEPT !.op = "contains", !.word = word,
                              !.found = contains(nodes, word)]
  /\ UNCHANGED <<vocab, nodes, trie, dawgPc, inserted, compressed, normVars, poolVars, storeVars>>

\* dawg.findAvailable(pool, mapping) with dfs going over node.words.sort():
\* the query sorts the stored words of the nodes in place
FindAvailableSortingWords ==
  /\ dawgPc = "ready"
  /\ call.op = "none"
  /\ \E pool \in DawgPools, mapping \in DawgMappings :
       LET r == findAvailable(nodes, pool, mapping)
       IN call' = [NoCall EXCEPT !.op = "findAvailable", !.pool = pool,
                                 !.mapping = mapping, !.poolAfter = r.pool,
                                 !.results = r.results]
  /\ nodes' = [n \in DOMAIN nodes |-> [nodes[n] EXCEPT !.words = SortStrings(@)]]
  /\ UNCHANGED <<vocab, trie, dawgPc, inserted, compressed, normVars, poolVars, storeVars>>

\* dawg.findAvailable(pool, mapping)
FindAvailable ==
  /\ dawgPc = "ready"
  /\ call.op = "none"
  /\ \E pool \in DawgPools, mapping \in DawgMappings :
       LET r == findAvailable(nodes, pool, mapping)
       IN call' = [NoCall EXCEPT !.op = "findAvailable", !.pool = pool,
                                 !.mapping = mapping, !.poolAfter = r.pool,
                                 !.results = r.results]
  /\ UNCHANGED <<vocab, nodes, trie, dawgPc, inserted, compressed, normVars, poolVars, storeVars>>

\* the caller is done with the answer; the DAWG is ready for the next query
Return ==
  /\ dawgPc = "ready"
  /\ call.op # "none"
  /\ call' = NoCall
  /\ UNCHANGED <<vocab, nodes, trie, dawgPc, inserted, compressed, normVars, poolVars, storeVars>>

DawgNext == InsertWord \/ Compress \/ Contains \/ FindAvailable \/ Return

SpecDawg == DawgInit /\ [][DawgNext]_vars

----------------------------------------------------------------------------
(* findAvailable step by step.  The stack holds one frame for each call of *)
(* dfs that has not returned: its node, the place i of the edge it is at   *)
(* in node.children and, once it has gone down that edge, the locals       *)
(* normalized and count.  call.poolAfter is the caller's pool as it stands.*)

\* the constructor's loop over words
RECURSIVE InsertAll(_, _)
InsertAll(ns, words) ==
  IF words = <<>> THEN ns ELSE InsertAll(insert(ns, Head(words)), Tail(words))

\* the DAWG gets the lines of the file as they are
WordsAsListed(words) == words

\* wordlists.ts: words.map((w) => w.toLocaleLowerCase("tr-TR"))
lowercasedWords(words) == [i \in 1..Len(words) |-> toLocaleLowerCase(words[i])]

\* the lines of a word list file, and the mappings a query is made with: none,
\* b -> a, and one whose key is a capital
DfsWords ==
  {<<"a">>, <<"b">>, <<"a", "b">>, <<"b", "a">>, <<"a", "a">>, <<"a", Space, "b">>,
   <<"A">>}
DfsListed == SeqsUpTo(DfsWords, 2)
DfsMappings ==
  {<<>>, buildMappingNormalizer(<<<<"b", "a">>>>),
   buildMappingNormalizer(<<<<"A", "b">>>>)}

\* a frame of dfs(node) that has not looked at an edge yet
Frame(node) == [node |-> node, i |-> 1, normalized |-> "", count |-> 0]

\* new DAWG(words) has returned, with a compress() that ran to its end
DfsInit ==
  /\ \E words \in DfsListed : vocab = lowercasedWords(words)
  /\ trie = InsertAll(<<DAWGNode>>, vocab)
  /\ nodes = compress(trie, NoLimit).ns
  /\ dawgPc = "built"
  /\ inserted = Len(vocab)
  /\ compressed = "complete"
  /\ call = NoCall
  /\ form = NoForm
  /\ mappingFile = NoFile
  /\ normCall = NormIdle
  /\ poolCall = PoolIdle
  /\ StoreIdle

\* findAvailable(pool, mapping) is called: results and seen are made and
\* dfs(this.root) is entered, which emits the words stored at the root
DfsEnter ==
  /\ dawgPc = "built"
  /\ call.op = "none"
  /\ \E pool \in DawgPools, mapping \in DfsMappings :
       LET st == [pool |-> pool, results |-> <<>>, seen |-> {}]
           at == IF nodes[1].isEnd THEN EmitWords(nodes[1].words, st) ELSE st
       IN call' = [NoCall EXCEPT !.op = "dfs", !.pool = pool, !.mapping = mapping,
                                 !.poolAfter = at.pool, !.results = at.results,
                                 !.seen = at.seen, !.stack = <<Frame(1)>>]
  /\ UNCHANGED <<vocab, nodes, trie, dawgPc, inserted, compressed, normVars, poolVars, storeVars>>

\* the loop of the innermost dfs looks at its next edge: the letter is to be
\* had, so it is taken and dfs(child) is entered
DfsDescend ==
  /\ call.op = "dfs"
  /\ LET top == call.stack[Len(call.stack)]
         children == nodes[top.node].children
     IN /\ top.i <= Len(children)
        /\ LET edgeCh == children[top.i][1]
               child == children[top.i][2]
               normalized == normalize(call.mapping, edgeCh)
           IN /\ canTake(call.poolAfter, normalized)
              /\ LET count == call.poolAfter[normalized]
                     st == [pool |-> take(call.poolAfter, normalized, count),
                            results |-> call.results, seen |-> call.seen]
                     at == IF nodes[child].isEnd
                           THEN EmitWords(nodes[child].words, st) ELSE st
                 IN call' = [call EXCEPT
                      !.poolAfter = at.pool, !.results = at.results,
                      !.seen = at.seen,
                      !.stack = Append(
                        [@ EXCEPT ![Len(@)] = [top EXCEPT !.normalized = normalized,
                                                          !.count = count]],
                        Frame(child))]
  /\ UNCHANGED <<vocab, nodes, trie, dawgPc, inserted, compressed, normVars, poolVars, storeVars>>

\* the letter of the next edge is not to be had: the loop goes on
DfsSkip ==
  /\ call.op = "dfs"
  /\ LET top == call.stack[Len(call.stack)]
         children == nodes[top.node].children
     IN /\ top.i <= Len(children)
        /\ ~canTake(call.poolAfter, normalize(call.mapping, children[top.i][1]))
        /\ call' = [call EXCEPT !.stack[Len(call.stack)].i = top.i + 1]
  /\ UNCHANGED <<vocab, nodes, trie, dawgPc, inserted, compressed, normVars, poolVars, storeVars>>

\* the loop of the innermost dfs is over and it returns: the dfs that called
\* it puts the count back and goes on with its loop
DfsBack ==
  /\ call.op = "dfs"
  /\ Len(call.stack) > 1
  /\ LET top == call.stack[Len(call.stack)]
         under == call.stack[Len(call.stack) - 1]
     IN /\ top.i > Len(nodes[top.node].children)
        /\ call' = [call EXCEPT
             !.poolAfter = restore(@, under.normalized, under.count),
             !.stack = [SubSeq(@, 1, Len(@) - 1) EXCEPT
                          ![Len(call.stack) - 1] = [under EXCEPT !.i = under.i + 1]]]
  /\ UNCHANGED <<vocab, nodes, trie, dawgPc, inserted, compressed, normVars, poolVars, storeVars>>

\* dfs(this.root) returns and findAvailable returns results
DfsDone ==
  /\ call.op = "dfs"
  /\ Len(call.stack) = 1
  /\ call.stack[1].i > Len(nodes[1].children)
  /\ call' = [call EXCEPT !.op = "findAvailable", !.stack = <<>>]
  /\ UNCHANGED <<vocab, nodes, trie, dawgPc, inserted, compressed, normVars, poolVars, storeVars>>

\* a word of the result is chosen and taken from the pool the query was
\* made with: subtractWord(pool, word, mapping)
Choose ==
  /\ dawgPc = "built"
  /\ call.op = "findAvailable"
  /\ \E i \in 1..Len(call.results) :
       call' = [call EXCEPT
         !.op = "subtractWord",
         !.word = call.results[i].word,
         !.poolAfter = subtractWord(call.pool, call.results[i].word, call.mapping)]
  /\ UNCHANGED <<vocab, nodes, trie, dawgPc, inserted, compressed, normVars, poolVars, storeVars>>

DfsNext == DfsEnter \/ DfsDescend \/ DfsSkip \/ DfsBack \/ DfsDone \/ Choose

SpecDfs == DfsInit /\ [][DfsNext]_vars

\* a call of findAvailable that has begun runs on: the recursion has no
\* suspension point
DfsRuns == DfsDescend \/ DfsSkip \/ DfsBack \/ DfsDone

SpecDfsRunning == SpecDfs /\ WF_vars(DfsRuns)

----------------------------------------------------------------------------
(* Properties of the DAWG.                                                 *)

\* the letters a pool or a mapping can name
AllLetters == Letters \cup {"c"}

\* how often the word needs the normalized letter k
Needs(word, k, mapping) ==
  Cardinality({i \in 1..Len(word) :
                 word[i] # Space /\ normalize(mapping, word[i]) = k})

\* the word's normalized letter counts all fit within the pool
Fits(word, pool, mapping) ==
  \A k \in AllLetters : Needs(word, k, mapping) <= CountOf(pool, k)

ResultWords(results) == {results[i].word : i \in 1..Len(results)}

VocabWords == {vocab[i] : i \in 1..Len(vocab)}

\* C1 - Soundness of findAvailable: every word it returns needs, for every
\* normalized letter, no more occurrences than the pool holds.
C1_Soundness ==
  call.op = "findAvailable" =>
    \A w \in ResultWords(call.results) : Fits(w, call.pool, call.mapping)

\* findAvailable returned a word that uses up a letter of the pool and left
\* out an inserted word that needs one more of it
C1_Witness ==
  /\ call.op = "findAvailable"
  /\ <<"a">> \in ResultWords(call.results)
  /\ <<"a", "a">> \in VocabWords
  /\ CountOf(call.pool, "a") = 1

\* C2 - Completeness of findAvailable: every inserted string whose normalized
\* letter counts fit within the pool is among the results.
C2_Completeness ==
  call.op = "findAvailable" =>
    \A w \in VocabWords :
      Fits(w, call.pool, call.mapping) => w \in ResultWords(call.results)

\* two entries on one letter path are both returned, and they fit only
\* through the mapping b -> a: the pool holds no b
C2_Witness ==
  /\ call.op = "findAvailable"
  /\ {<<"a", "b">>, <<"a", Space, "b">>} \subseteq ResultWords(call.results)
  /\ "b" \notin DOMAIN call.pool

\* C3 - No duplicate emissions: no two entries of one findAvailable result
\* have the same word.
C3_NoDuplicates ==
  call.op = "findAvailable" =>
    \A i, j \in 1..Len(call.results) :
      call.results[i].word = call.results[j].word => i = j

\* the vocabulary holds one string twice and the result holds it
C3_Witness ==
  /\ call.op = "findAvailable"
  /\ Len(vocab) = 2
  /\ vocab[1] = vocab[2]
  /\ vocab[1] \in ResultWords(call.results)

\* C4 - Compression transparency: after compress() has run to completion,
\* contains and findAvailable answer as the plain trie of the same vocabulary
\* answers (the same truth value, the same set of results).
C4_CompressionTransparent ==
  compressed = "complete" =>
    /\ call.op = "contains" => call.found = contains(trie, call.word)
    /\ call.op = "findAvailable" =>
         ResultWords(call.results)
           = ResultWords(findAvailable(trie, call.pool, call.mapping).results)

\* a query on a completely compressed DAWG of two words with the same suffix
C4_Witness ==
  /\ compressed = "complete"
  /\ vocab = <<<<"a", "a">>, <<"b", "a">>>>
  /\ call.op = "findAvailable"
  /\ call.results # <<>>

\* C5 - Exact membership: contains(w) is true exactly when some inserted entry
\* has the same sequence of non-space characters as w.
C5_ExactMembership ==
  call.op = "contains" =>
    (call.found <=> \E v \in VocabWords : StripSpaces(v) = StripSpaces(call.word))

\* contains answered false for a proper prefix of an inserted word
C5_Witness ==
  /\ call.op = "contains"
  /\ call.word = <<"a">>
  /\ VocabWords = {<<"a", "b">>}
  /\ ~call.found

\* the vocabulary's entries without a letter: "" and entries of separators
ZeroLength == {w \in VocabWords : \A i \in 1..Len(w) : w[i] = Space}

\* C13 - An empty pool yields an empty result: for every vocabulary and
\* mapping, findAvailable with a pool that has no entries returns an empty
\* list.
C13_EmptyPoolEmptyResult ==
  (call.op = "findAvailable" /\ call.pool = <<>>) => call.results = <<>>

\* C13 as the code has it: with a pool that has no entries findAvailable
\* returns the vocabulary's zero-length entries, each once with letterCount 0,
\* and nothing else; so an empty list when the vocabulary has no such entry.
C13_EmptyPoolOnlyZeroLength ==
  (call.op = "findAvailable" /\ call.pool = <<>>) =>
    /\ ResultWords(call.results) = ZeroLength
    /\ Len(call.results) = Cardinality(ZeroLength)
    /\ \A i \in 1..Len(call.results) : call.results[i].letterCount = 0

\* the words "a" and " " asked with an empty pool: " " alone comes back
C13_Witness ==
  /\ call.op = "findAvailable"
  /\ call.pool = <<>>
  /\ vocab = <<<<"a">>, <<Space>>>>
  /\ call.results = <<[word |-> <<Space>>, letterCount |-> 0]>>

\* C14 - Zero-length entry: a vocabulary entry without a non-space character
\* ("" or only spaces) does not stop the construction, is stored at the root
\* once inserted, and findAvailable returns it with letterCount 0 for every
\* pool.
C14_ZeroLengthAtRoot ==
  /\ \A i \in 1..inserted :
       vocab[i] \in ZeroLength =>
         /\ nodes[1].isEnd
         /\ \E j \in 1..Len(nodes[1].words) : nodes[1].words[j] = vocab[i]
  /\ call.op = "findAvailable" =>
       \A w \in ZeroLength :
         \E i \in 1..Len(call.results) :
           call.results[i] = [word |-> w, letterCount |-> 0]

\* "" and "b" asked with the pool a:2: "" comes back though no letter of the
\* pool is used
C14_Witness ==
  /\ call.op = "findAvailable"
  /\ vocab = <<<<>>, <<"b">>>>
  /\ call.pool = ("a" :> 2)
  /\ call.results = <<[word |-> <<>>, letterCount |-> 0]>>

\* C15 - letterCount semantics: the letterCount of every result is the number
\* of characters of its word that are not the space separator.
C15_LetterCount ==
  call.op = "findAvailable" =>
    \A i \in 1..Len(call.results) :
      LET word == call.results[i].word
      IN call.results[i].letterCount
           = Cardinality({j \in 1..Len(word) : word[j] # Space})

\* "a b" and "ab" both come back with letterCount 2
C15_Witness ==
  /\ call.op = "findAvailable"
  /\ \E i \in 1..Len(call.results) :
       call.results[i] = [word |-> <<"a", Space, "b">>, letterCount |-> 2]
  /\ \E i \in 1..Len(call.results) :
       call.results[i] = [word |-> <<"a", "b">>, letterCount |-> 2]

\* the answer held is the answer the DAWG gives now for the same arguments
AnswersFromNodes ==
  dawgPc = "ready" =>
    /\ call.op = "contains" => call.found = contains(nodes, call.word)
    /\ call.op = "findAvailable" =>
         call.results = findAvailable(nodes, call.pool, call.mapping).results

\* a step taken once the constructor has returned leaves every node as it is
NodesKept == dawgPc = "ready" => nodes' = nodes

\* C23 - The automaton is immutable after construction: once the constructor
\* has returned, no call of contains or findAvailable changes a node's
\* children, terminal flag or stored words, so queries with equal arguments
\* return equal results, the same words in the same order.
C23_ImmutableAfterConstruction == []AnswersFromNodes /\ [][NodesKept]_vars

\* two entries stored at one node in the order they were inserted, which is
\* not the sorted order, come back in that order
C23_Witness ==
  /\ dawgPc = "ready"
  /\ call.op = "findAvailable"
  /\ vocab = <<<<"a", "b">>, <<"a", Space, "b">>>>
  /\ call.results = <<[word |-> <<"a", "b">>, letterCount |-> 2],
                      [word |-> <<"a", Space, "b">>, letterCount |-> 2]>>

\* the walk in steps ends with what findAvailable gives in one go
StepsAgree ==
  (dawgPc = "built" /\ call.op = "findAvailable") =>
    LET r == findAvailable(nodes, call.pool, call.mapping)
    IN call.results = r.results /\ call.poolAfter = r.pool /\ call.seen = r.seen

\* the edges of the path from the root to the node the walk is at: the edge
\* each frame under the innermost one has gone down
PathLabels ==
  [d \in 1..Len(call.stack) - 1 |->
     nodes[call.stack[d].node].children[call.stack[d].i][1]]

\* how many edges of the path have the normalized label k
OnPath(k) ==
  Cardinality({d \in 1..Len(PathLabels) : normalize(call.mapping, PathLabels[d]) = k})

\* C26 - Backtracking invariant: at every moment of a findAvailable traversal,
\* for every letter k the pool's count of k plus the number of edges on the
\* path from the root to the current node whose normalized label is k is the
\* count of k in the pool at the start of the call, and no count is negative.
C26_BacktrackingInvariant ==
  call.op = "dfs" =>
    /\ \A k \in AllLetters :
         CountOf(call.poolAfter, k) + OnPath(k) = CountOf(call.pool, k)
    /\ \A k \in DOMAIN call.poolAfter : call.poolAfter[k] >= 0
    /\ DOMAIN call.poolAfter = DOMAIN call.pool

\* two edges down, both labelled a after normalization, the pool's two a
\* taken: the count stands at 0 with the key still in the pool
C26_Witness ==
  /\ call.op = "dfs"
  /\ Len(call.stack) = 3
  /\ PathLabels = <<"a", "b">>
  /\ call.mapping # <<>>
  /\ call.pool = ("a" :> 2)
  /\ call.poolAfter = ("a" :> 0)

\* the letters a pool holds in all
RECURSIVE TotalOver(_, _)
TotalOver(pool, keys) ==
  IF keys = {} THEN 0
  ELSE LET k == CHOOSE x \in keys : TRUE
       IN pool[k] + TotalOver(pool, keys \ {k})

Total(pool) == TotalOver(pool, DOMAIN pool)

\* C27 - Suggested words are payable: with a vocabulary of lower-cased
\* entries, subtracting a word that findAvailable(P, mapping) returned from P
\* lowers the total letter count of P by exactly the word's letterCount and
\* each letter's count by exactly the number of times the word needs it.
C27_SuggestionsPayable ==
  (dawgPc = "built" /\ call.op = "subtractWord") =>
    /\ Total(call.poolAfter) = Total(call.pool) - letterCount(call.word)
    /\ \A k \in AllLetters :
         CountOf(call.poolAfter, k)
           = CountOf(call.pool, k) - Needs(call.word, k, call.mapping)

\* "a b" is paid from the pool a:2 through the mapping b -> a: both letters
\* come from the count of a, and the pool is left without an entry
C27_Witness ==
  /\ dawgPc = "built"
  /\ call.op = "subtractWord"
  /\ call.word = <<"a", Space, "b">>
  /\ call.pool = ("a" :> 2)
  /\ call.poolAfter = <<>>

\* the letter count of the longest entry; 0 for an empty vocabulary
LongestEntry ==
  IF vocab = <<>> THEN 0
  ELSE CHOOSE n \in {letterCount(w) : w \in VocabWords} :
         \A w \in VocabWords : letterCount(w) <= n

\* the calls of dfs below dfs(this.root) that have not returned
Depth == Len(call.stack) - 1

DepthBounded ==
  call.op = "dfs" =>
    /\ Depth <= LongestEntry
    /\ Depth <= Total(call.pool)

Terminates == (call.op = "dfs") ~> (call.op = "findAvailable")

\* C29 - findAvailable terminates: for every vocabulary and pool the
\* traversal ends, and its recursion depth never exceeds the smaller of the
\* longest entry's letter count and the total number of letters in the pool.
C29_TerminatesWithinBound == []DepthBounded /\ Terminates

\* the walk is as deep as the pool allows, one edge, under an entry of two
\* letters, and the call has not returned yet
C29_Witness ==
  /\ call.op = "dfs"
  /\ Depth = 1
  /\ Total(call.pool) = 1
  /\ LongestEntry = 2
  /\ nodes[call.stack[2].node].children # <<>>

\* C21 - findAvailable restores the caller's pool: when the call returns, the
\* pool has the same keys and the same count for every key as before the call.
C21_PoolRestored ==
  call.op = "findAvailable" => call.poolAfter = call.pool

\* a call that went down two edges, taking both letters of the pool, and came
\* back with the word found there
C21_Witness ==
  /\ call.op = "findAvailable"
  /\ call.pool = ("a" :> 1 @@ "b" :> 1)
  /\ call.poolAfter = call.pool
  /\ <<"a", "b">> \in ResultWords(call.results)

\* the results as a set of (word, letterCount) pairs
ResultSet(results) == {results[i] : i \in 1..Len(results)}

\* C25 - Compression timeout is harmless: when the time budget runs out at any
\* point of compress(), the constructor still completes, and contains and
\* findAvailable answer as the uncompressed trie of the same vocabulary
\* answers (the same truth value, the same set of results).
C25_TimeoutHarmless ==
  compressed = "timeout" =>
    /\ dawgPc = "ready"
    /\ call.op = "contains" => call.found = contains(trie, call.word)
    /\ call.op = "findAvailable" =>
         ResultSet(call.results)
           = ResultSet(findAvailable(trie, call.pool, call.mapping).results)

\* the time ran out after compress() had sorted the words stored at the node
\* of "ab": the nodes differ from the trie's, the query finds both entries
C25_Witness ==
  /\ compressed = "timeout"
  /\ nodes # trie
  /\ call.op = "findAvailable"
  /\ ResultWords(call.results) = {<<"a", "b">>, <<"a", Space, "b">>}

\* the letter sequences of the vocabulary and their prefixes
VocabLetters == {StripSpaces(w) : w \in VocabWords}
VocabPrefixes == UNION {{SubSeq(w, 1, n) : n \in 0..Len(w)} : w \in VocabLetters}

\* the words of the vocabulary that begin with the prefix
BeginWith(prefix) ==
  {w \in VocabLetters : Len(w) >= Len(prefix) /\ SubSeq(w, 1, Len(prefix)) = prefix}

\* what follows the prefix in the vocabulary
SuffixesOf(prefix) ==
  {SubSeq(w, Len(prefix) + 1, Len(w)) : w \in BeginWith(prefix)}

\* the node the letters lead to from `node`; the letters are a prefix of an
\* inserted word
RECURSIVE NodeAt(_, _, _)
NodeAt(ns, node, rest) ==
  IF rest = <<>> THEN node
  ELSE NodeAt(ns, ChildGet(ns[node].children, Head(rest)), Tail(rest))

\* the nodes the root leads to
ReachableNodes(ns) == {NodeAt(ns, 1, p) : p \in VocabPrefixes}

\* C24 - Suffix merging: after construction with a compression that ran to
\* its end, two different prefixes of the vocabulary that are followed by the
\* same set of letter suffixes reach one shared node, and the structure then
\* has fewer nodes than the plain trie.
C24_SuffixMerging ==
  compressed = "complete" =>
    \A p, q \in VocabPrefixes :
      (p # q /\ SuffixesOf(p) = SuffixesOf(q)) =>
        /\ NodeAt(nodes, 1, p) = NodeAt(nodes, 1, q)
        /\ Cardinality(ReachableNodes(nodes)) < Cardinality(ReachableNodes(trie))

----------------------------------------------------------------------------
(* store/mappings.ts and routes/settings.ts: saving the mapping pairs.     *)

\* getMappings(wordListId): the file's data; a missing file reads as NoFile
getMappings(file) == file

\* saveMappings that writes version 1 whatever the file holds
SaveMappingsAsFirst(file, pairs) == [pairs |-> pairs, version |-> 1]

\* saveMappings(wordListId, pairs): the file it writes
saveMappings(file, pairs) ==
  [pairs |-> pairs, version |-> getMappings(file).version + 1]

\* String.prototype.trim on a form value
trim(value) ==
  CASE value = " " -> ""
    [] value = " b" -> "b"
    [] OTHER -> value

\* if (from && to), on the trimmed values
KeepIfEither(from, to) == from # "" \/ to # ""

keepPair(from, to) == from # "" /\ to # ""

Min(a, b) == IF a <= b THEN a ELSE b

\* the loop of the PUT handler over the form rows, from row i on
RECURSIVE CollectPairs(_, _, _, _, _)
CollectPairs(fromValues, toValues, i, count, pairs) ==
  IF i > count THEN pairs
  ELSE LET from == trim(fromValues[i])
           to == trim(toValues[i])
       IN CollectPairs(fromValues, toValues, i + 1, count,
                       IF keepPair(from, to) THEN Append(pairs, <<from, to>>)
                       ELSE pairs)

formPairs(fromValues, toValues) ==
  CollectPairs(fromValues, toValues, 1, Min(Len(fromValues), Len(toValues)), <<>>)

\* Form values as typed: letters, padded letters, nothing, blanks.
FormValues == {"a", " b", "", " "}
Forms == [from : SeqsUpTo(FormValues, MaxPairs), to : SeqsUpTo(FormValues, MaxPairs)]

\* Tokens of a pair handed to buildMappingNormalizer by a direct caller.
Tokens == {"a", "b", "c", ""}
PairLists == SeqsUpTo(Tokens \X Tokens, MaxPairs)

\* Either a settings form is about to be sent, or a caller holds a list of
\* pairs for buildMappingNormalizer.
NormInit ==
  /\ \/ /\ form \in Forms
        /\ normCall = NormIdle
     \/ /\ form = NoForm
        /\ normCall \in {[via |-> "arg", pairs |-> p, map |-> <<>>] : p \in PairLists}
  /\ mappingFile = NoFile
  /\ poolCall = PoolIdle
  /\ vocab = <<>>
  /\ nodes = <<DAWGNode>>
  /\ trie = <<>>
  /\ dawgPc = "idle"
  /\ inserted = 0
  /\ compressed = "none"
  /\ call = NoCall
  /\ StoreIdle

\* PUT /settings/mappings/:wordListId
PutMappings ==
  /\ mappingFile.version < MaxSaves
  /\ mappingFile' = saveMappings(mappingFile, formPairs(form.from, form.to))
  /\ UNCHANGED <<form, normCall, dawgVars, poolVars, storeVars>>

\* buildMappingNormalizer(attempt.mappingSnapshot) on the pairs read with
\* getMappings (routes/attempts.ts)
BuildFromFile ==
  /\ normCall.via \in {"none", "file"}
  /\ LET pairs == getMappings(mappingFile).pairs
     IN normCall' = [via |-> "file", pairs |-> pairs,
                     map |-> buildMappingNormalizer(pairs)]
  /\ UNCHANGED <<form, mappingFile, dawgVars, poolVars, storeVars>>

\* buildMappingNormalizer(pairs) called with the caller's own list
BuildDirect ==
  /\ normCall.via = "arg"
  /\ normCall' = [normCall EXCEPT !.via = "direct",
                                  !.map = buildMappingNormalizer(normCall.pairs)]
  /\ UNCHANGED <<form, mappingFile, dawgVars, poolVars, storeVars>>

NormNext == PutMappings \/ BuildFromFile \/ BuildDirect

SpecNorm == NormInit /\ [][NormNext]_vars

----------------------------------------------------------------------------
(* Properties of the normalizer.                                           *)

Built == normCall.via \in {"direct", "file"}

PairsOf(pairs) == {pairs[i] : i \in 1..Len(pairs)}

\* every `from` has one `to`, and no `to` is the `from` of a pair to another letter
Unchained(pairs) ==
  /\ \A p, q \in PairsOf(pairs) : p[1] = q[1] => p[2] = q[2]
  /\ \A p, q \in PairsOf(pairs) : p[2] = q[1] => q[2] = p[2]

Idempotent(pairs, map) ==
  /\ \A p \in PairsOf(pairs) :
       normalizeChar(p[1], map) = p[2] /\ normalizeChar(p[2], map) = p[2]
  /\ \A x \in Tokens :
       normalizeChar(normalizeChar(x, map), map) = normalizeChar(x, map)

LastTo(pairs, x) ==
  LET last == CHOOSE i \in 1..Len(pairs) :
                /\ pairs[i][1] = x
                /\ \A j \in 1..Len(pairs) : pairs[j][1] = x => j <= i
  IN pairs[last][2]

Froms(pairs) == {pairs[i][1] : i \in 1..Len(pairs)}
Tos(pairs) == {pairs[i][2] : i \in 1..Len(pairs)}

\* C7 - Override rule: each `from` maps to the `to` of the last pair with that
\* `from`; a `to` that is no `from` maps to itself; no other letter has an
\* entry, and normalize returns it unchanged.
C7_OverrideRule ==
  Built =>
    LET pairs == normCall.pairs
        map == normCall.map
    IN /\ DOMAIN map = Froms(pairs) \cup Tos(pairs)
       /\ \A x \in Froms(pairs) : map[x] = LastTo(pairs, x)
       /\ \A x \in Tos(pairs) \ Froms(pairs) : map[x] = x
       /\ \A x \in Tokens \ DOMAIN map : normalizeChar(x, map) = x

\* a normalizer built from two pairs with the same `from`
C7_Witness ==
  /\ Built
  /\ normCall.pairs = <<<<"a", "b">>, <<"a", "c">>>>

\* the pairs without those that have an empty token
ValidPair(p) == p[1] # "" /\ p[2] # ""

\* C8 as claimed - a pair with an empty `from` or `to` contributes no entry to
\* the map buildMappingNormalizer builds, and the other pairs are processed
\* as if it were absent.
C8_InvalidSkippedByBuilder ==
  Built =>
    normCall.map = buildMappingNormalizer(SelectSeq(normCall.pairs, ValidPair))

\* the rows of the form, trimmed, up to the shorter column
FormRows ==
  [i \in 1..Min(Len(form.from), Len(form.to)) |->
     <<trim(form.from[i]), trim(form.to[i])>>]

\* C8 as amended - the PUT handler of the settings route drops the rows whose
\* trimmed `from` or `to` is empty before it saves, so the normalizer built
\* from the saved pairs has no entry for the empty token and is the one built
\* from the other rows alone.
C8_InvalidSkippedByRoute ==
  (normCall.via = "file" /\ normCall.pairs = mappingFile.pairs
     /\ mappingFile.version > 0) =>
    /\ "" \notin DOMAIN normCall.map
    /\ normCall.map = buildMappingNormalizer(SelectSeq(FormRows, ValidPair))

\* a saved form with one row that has a blank `to` and one good row, and the
\* normalizer built from the file
C8_Witness ==
  /\ normCall.via = "file"
  /\ mappingFile.version > 0
  /\ form = [from |-> <<"a", "a">>, to |-> <<" ", " b">>]
  /\ normCall.map = buildMappingNormalizer(<<<<"a", "b">>>>)

----------------------------------------------------------------------------
(* The letter pool functions, applied to a source text, a list of chosen   *)
(* words and a mapping.                                                    *)

TextChars == {"a", "b", "A", Space}
SourceTexts == SeqsUpTo(TextChars, MaxText)

\* Words a user can choose or type: one and two letters, a capital, a
\* two-word entry.
ChosenWordSet ==
  {<<"a">>, <<"b">>, <<"a", "b">>, <<"b", "a">>, <<"a", "a">>, <<"A">>,
   <<"a", Space, "b">>}
ChosenLists == SeqsUpTo(ChosenWordSet, MaxChosen)

PoolMappings == {<<>>, buildMappingNormalizer(<<<<"b", "a">>>>)}

\* A caller holds the arguments of a pool function.
PoolInit ==
  /\ poolCall \in {[PoolIdle EXCEPT !.op = "args", !.sourceText = t,
                                    !.chosenWords = ws, !.mapping = m] :
                     t \in SourceTexts, ws \in ChosenLists, m \in PoolMappings}
  /\ form = NoForm
  /\ mappingFile = NoFile
  /\ normCall = NormIdle
  /\ vocab = <<>>
  /\ nodes = <<DAWGNode>>
  /\ trie = <<>>
  /\ dawgPc = "idle"
  /\ inserted = 0
  /\ compressed = "none"
  /\ call = NoCall
  /\ StoreIdle

\* textToPool(sourceText, mapping)
TextToPool ==
  /\ poolCall.op = "args"
  /\ poolCall' = [poolCall EXCEPT
       !.op = "textToPool",
       !.pool = textToPool(poolCall.sourceText, poolCall.mapping),
       !.heap = <<textToPool(poolCall.sourceText, poolCall.mapping)>>,
       !.ref = 1]
  /\ UNCHANGED <<dawgVars, normVars, storeVars>>

\* pool = subtractWord(pool, word, mapping) on the pool the call before
\* returned, with the next chosen word; before is what the pool passed in
\* held, passed is the Map passed in, ref the Map returned
SubtractWord ==
  /\ poolCall.op \in {"textToPool", "subtractWord"}
  /\ poolCall.done < Len(poolCall.chosenWords)
  /\ LET word == poolCall.chosenWords[poolCall.done + 1]
         r == subtractWordOn(poolCall.heap, poolCall.ref, word, poolCall.mapping)
     IN poolCall' = [poolCall EXCEPT
          !.op = "subtractWord",
          !.before = poolCall.heap[poolCall.ref],
          !.word = word,
          !.done = poolCall.done + 1,
          !.heap = r.heap,
          !.passed = poolCall.ref,
          !.ref = r.ref,
          !.pool = r.heap[r.ref]]
  /\ UNCHANGED <<dawgVars, normVars, storeVars>>

\* computeRemainingPool(sourceText, chosenWords, mapping)
ComputeRemainingPool ==
  /\ poolCall.op = "args"
  /\ poolCall' = [poolCall EXCEPT
       !.op = "computeRemainingPool",
       !.pool = computeRemainingPool(poolCall.sourceText, poolCall.chosenWords,
                                     poolCall.mapping)]
  /\ UNCHANGED <<dawgVars, normVars, storeVars>>

\* charOverflowMasks(sourceText, chosenWords, mapping)
CharOverflowMasks ==
  /\ poolCall.op = "args"
  /\ poolCall' = [poolCall EXCEPT
       !.op = "charOverflowMasks",
       !.masks = charOverflowMasks(poolCall.sourceText, poolCall.chosenWords,
                                   poolCall.mapping)]
  /\ UNCHANGED <<dawgVars, normVars, storeVars>>

PoolNext == TextToPool \/ SubtractWord \/ ComputeRemainingPool \/ CharOverflowMasks

SpecPool == PoolInit /\ [][PoolNext]_vars

----------------------------------------------------------------------------
(* Properties of the letter pool.                                          *)

\* the list ws in every order
Orders(ws) ==
  {[i \in 1..Len(ws) |-> ws[f[i]]] : f \in Permutations(1..Len(ws))}

\* C9 - Order independence of the remaining pool: computeRemainingPool gives
\* the same letter counts for every order of the chosen words.
C9_OrderIndependent ==
  poolCall.op = "computeRemainingPool" =>
    \A ws \in Orders(poolCall.chosenWords) :
      computeRemainingPool(poolCall.sourceText, ws, poolCall.mapping) = poolCall.pool

\* the remaining pool of "ab" after "b" and "ba": the second word asks for a
\* letter that is gone
C9_Witness ==
  /\ poolCall.op = "computeRemainingPool"
  /\ poolCall.sourceText = <<"a", "b">>
  /\ poolCall.chosenWords = <<<<"b">>, <<"b", "a">>>>
  /\ poolCall.pool = <<>>

\* occurrences of the j-th letter of the lower-cased word among its first j
\* characters, after normalization
ClaimedUpTo(word, j, mapping) ==
  Cardinality({k \in 1..j :
     /\ word[k] # Space
     /\ normalizeChar(word[k], mapping) = normalizeChar(word[j], mapping)})

\* C10 - Overflow masks: one mask per chosen word, in order, one flag per
\* character; the flag of a letter is true exactly when the occurrences of its
\* normalized letter in the word up to and including it exceed that letter's
\* count in the pool left by the words before; a separator's flag is false.
C10_OverflowMask ==
  poolCall.op = "charOverflowMasks" =>
    LET words == poolCall.chosenWords
        masks == poolCall.masks
    IN /\ Len(masks) = Len(words)
       /\ \A i \in 1..Len(words) :
            LET word == toLocaleLowerCase(words[i])
                before == computeRemainingPool(poolCall.sourceText,
                                               SubSeq(words, 1, i - 1),
                                               poolCall.mapping)
            IN /\ Len(masks[i]) = Len(word)
               /\ \A j \in 1..Len(word) :
                    masks[i][j] <=>
                      /\ word[j] # Space
                      /\ ClaimedUpTo(word, j, poolCall.mapping)
                           > CountOf(before, normalizeChar(word[j], poolCall.mapping))

\* scenario D: source "ab", words "ab" then "a"
C10_Witness ==
  /\ poolCall.op = "charOverflowMasks"
  /\ poolCall.sourceText = <<"a", "b">>
  /\ poolCall.chosenWords = <<<<"a", "b">>, <<"a">>>>
  /\ poolCall.masks = <<<<FALSE, FALSE>>, <<TRUE>>>>

\* the pool holds only counts of 1 and more
Sparse(pool) == \A k \in DOMAIN pool : pool[k] \in Nat /\ pool[k] >= 1

\* C11 - Canonical sparse pool: the pool textToPool returns, and the pool after
\* each subtractWord call that follows, and so the pool computeRemainingPool
\* returns, stores strictly positive counts only; no letter is stored with a
\* zero or negative count.
C11_SparsePool ==
  poolCall.op \in {"textToPool", "subtractWord", "computeRemainingPool"} =>
    Sparse(poolCall.pool)

\* "aa" less "a" twice: the first call lowers a to 1, the second takes the
\* last a away and leaves no entry behind
C11_Witness ==
  /\ poolCall.op = "subtractWord"
  /\ poolCall.sourceText = <<"a", "a">>
  /\ poolCall.done = 2
  /\ poolCall.before = ("a" :> 1)
  /\ poolCall.pool = <<>>

\* how often the lower-cased word needs the normalized letter k
NeedsLower(word, k, mapping) == Needs(toLocaleLowerCase(word), k, mapping)

\* the letters of which the pool holds fewer than the word needs
Short(pool, word, mapping) ==
  {k \in AllLetters : CountOf(pool, k) < NeedsLower(word, k, mapping)}

\* the word without the characters that normalize to a letter of ks
Without(word, ks, mapping) ==
  SelectSeq(word, LAMBDA ch :
    ch = Space \/ normalizeChar(LowerChar(ch), mapping) \notin ks)

\* C12 - Clamped subtraction: subtractWord with a word that needs a letter more
\* often than the pool holds it returns a pool (it raises nothing) in which
\* that letter is absent, not negative, and every other letter has the count
\* it has when the word is subtracted without the short letters: its count
\* before less the word's need of it.
C12_ClampedSubtraction ==
  poolCall.op = "subtractWord" =>
    LET before == poolCall.before
        word == poolCall.word
        mapping == poolCall.mapping
        short == Short(before, word, mapping)
        other == subtractWord(before, Without(word, short, mapping), mapping)
    IN /\ \A k \in short : k \notin DOMAIN poolCall.pool
       /\ \A k \in AllLetters \ short :
            /\ CountOf(poolCall.pool, k) = CountOf(other, k)
            /\ CountOf(poolCall.pool, k)
                 = CountOf(before, k) - NeedsLower(word, k, mapping)
       /\ DOMAIN poolCall.pool \subseteq AllLetters

\* "bb" less "ab": a is not in the pool and stays out, b goes from 2 to 1
C12_Witness ==
  /\ poolCall.op = "subtractWord"
  /\ poolCall.before = ("b" :> 2)
  /\ poolCall.word = <<"a", "b">>
  /\ poolCall.mapping = <<>>
  /\ "a" \in Short(poolCall.before, poolCall.word, poolCall.mapping)
  /\ poolCall.pool = ("b" :> 1)

\* the Map passed to the last subtractWord call holds what it held before the
\* call, and the Map returned is another one
PassedUnchanged ==
  poolCall.op = "subtractWord" =>
    /\ poolCall.ref # poolCall.passed
    /\ poolCall.heap[poolCall.passed] = poolCall.before

\* every Map made so far holds after the step what it held before it
SnapshotsKept ==
  \A i \in 1..Len(poolCall.heap) :
    /\ i <= Len(poolCall'.heap)
    /\ poolCall'.heap[i] = poolCall.heap[i]

\* C22 - subtractWord is value-like: it returns a new pool and leaves the pool
\* passed in with the keys and counts it had, so the pool read for word i is
\* not changed by the subtraction of word i or of a later word.
C22_ValueLike == []PassedUnchanged /\ [][SnapshotsKept]_vars

\* "ab" less "a", then less "b": three pools, each still as it was made
C22_Witness ==
  /\ poolCall.op = "subtractWord"
  /\ poolCall.done = 2
  /\ poolCall.mapping = <<>>
  /\ poolCall.heap = <<("a" :> 1 @@ "b" :> 1), ("b" :> 1), <<>>>>
  /\ poolCall.passed = 2
  /\ poolCall.ref = 3

----------------------------------------------------------------------------
(* textToPool on texts that hold more than letters and spaces.             *)

Tab == "\t"
Whitespace == {Space, Tab}
Punctuation == {"!", "."}

PlainTextChars == {"a", "b", "A"} \cup Whitespace \cup Punctuation
PlainTexts == SeqsUpTo(PlainTextChars, MaxText)

\* the chosen words: none, a word of the text, a word typed with a mark
PlainChosen == {<<>>, <<<<"a">>>>, <<<<"a", "!">>>>}

\* A caller holds a text, chosen words and a mapping for the pool functions.
TextInit ==
  /\ poolCall \in {[PoolIdle EXCEPT !.op = "args", !.sourceText = t,
                                    !.chosenWords = ws, !.mapping = m] :
                     t \in PlainTexts, ws \in PlainChosen, m \in PoolMappings}
  /\ form = NoForm
  /\ mappingFile = NoFile
  /\ normCall = NormIdle
  /\ vocab = <<>>
  /\ nodes = <<DAWGNode>>
  /\ trie = <<>>
  /\ dawgPc = "idle"
  /\ inserted = 0
  /\ compressed = "none"
  /\ call = NoCall
  /\ StoreIdle

TextNext == TextToPool \/ CharOverflowMasks

SpecText == TextInit /\ [][TextNext]_vars

\* the characters of the text after case folding
Folded == toLocaleLowerCase(poolCall.sourceText)

\* C16 - textToPool tally: the pool maps each letter k to the number of
\* non-whitespace characters ch of the case-folded text with normalize(ch) = k,
\* and no whitespace character is a key of the pool.
C16_TallyNonWhitespace ==
  poolCall.op = "textToPool" =>
    /\ \A k \in PlainTextChars \cup DOMAIN poolCall.pool :
         CountOf(poolCall.pool, k) =
           Cardinality({i \in 1..Len(Folded) :
              /\ Folded[i] \notin Whitespace
              /\ normalizeChar(Folded[i], poolCall.mapping) = k})
    /\ DOMAIN poolCall.pool \cap Whitespace = {}

\* the text without its punctuation characters
Unpunctuated(text) == SelectSeq(text, LAMBDA ch : ch \notin Punctuation)

\* C17 - textToPool ignores punctuation: no punctuation character of the text
\* is a key of the pool, and every letter has the count it has for the text
\* without the punctuation.
C17_IgnoresPunctuation ==
  poolCall.op = "textToPool" =>
    /\ DOMAIN poolCall.pool \cap Punctuation = {}
    /\ \A k \in PlainTextChars \ Punctuation :
         CountOf(poolCall.pool, k) =
           CountOf(textToPool(Unpunctuated(poolCall.sourceText), poolCall.mapping), k)

\* the characters of a case-folded text that are letters
IsLetter(ch) == ch \notin Whitespace \cup Punctuation
LettersOf(text) == SelectSeq(toLocaleLowerCase(text), IsLetter)

\* the letters of the text, or of a word, that normalize to k
LettersAs(text, k, mapping) ==
  Cardinality({i \in 1..Len(LettersOf(text)) :
                 normalizeChar(LettersOf(text)[i], mapping) = k})

RECURSIVE SumOf(_)
SumOf(numbers) == IF numbers = <<>> THEN 0 ELSE Head(numbers) + SumOf(Tail(numbers))

\* the letters of all words together, and those that normalize to k
LettersOfAll(words) == SumOf([i \in 1..Len(words) |-> Len(LettersOf(words[i]))])
AskedAs(words, k, mapping) ==
  SumOf([i \in 1..Len(words) |-> LettersAs(words[i], k, mapping)])

\* the flags of all masks that are true
TrueFlags(masks) ==
  SumOf([i \in 1..Len(masks) |->
           Cardinality({j \in 1..Len(masks[i]) : masks[i][j]})])

\* how many more letters k the words ask for than the text supplies
Beyond(text, words, k, mapping) ==
  IF AskedAs(words, k, mapping) > LettersAs(text, k, mapping)
  THEN AskedAs(words, k, mapping) - LettersAs(text, k, mapping) ELSE 0

\* C28 - Overflow masks agree with the remaining pool: every mask of
\* charOverflowMasks is all false if and only if the total count of
\* computeRemainingPool is the number of letters of the source text less the
\* number of letters of all chosen words, and the number of true flags is the
\* number of letters the chosen words ask for beyond what the source supplies.
C28_MasksAgreeWithPool ==
  poolCall.op = "charOverflowMasks" =>
    LET text == poolCall.sourceText
        words == poolCall.chosenWords
        mapping == poolCall.mapping
        remaining == computeRemainingPool(text, words, mapping)
    IN /\ (TrueFlags(poolCall.masks) = 0) <=>
            (Total(remaining) = Len(LettersOf(text)) - LettersOfAll(words))
       /\ TrueFlags(poolCall.masks) =
            SumOf([i \in 1..3 |->
                     Beyond(text, words, <<"a", "b", "c">>[i], mapping)])

----------------------------------------------------------------------------
(* store/mappings.ts and store/attempts.ts on their data directories, and  *)
(* the routes over them.  A directory is the function from the ids that    *)
(* have a file to the data in the file; what JSON.parse reads is what      *)
(* JSON.stringify wrote, for pairs of strings, numbers and lists of words. *)
(* The time stamps createdAt and updatedAt are left out.  A handler reads  *)
(* and writes the files with the synchronous fs calls after its last       *)
(* await, so it acts on the store in one step.                             *)

\* getMappings(wordListId, dir)
getMappingsOf(dir, wordListId) ==
  getMappings(IF wordListId \in DOMAIN dir THEN dir[wordListId] ELSE NoFile)

\* saveMappings(wordListId, pairs, dir)
saveMappingsOf(dir, wordListId, pairs) ==
  MapSet(dir, wordListId, saveMappings(getMappingsOf(dir, wordListId), pairs))

\* createAttempt(input, dir), with the id crypto.randomUUID() gave
createAttempt(dir, id, input) ==
  MapSet(dir, id,
         [sourceText |-> input.sourceText,
          wordListId |-> input.wordListId,
          mappingSnapshot |-> input.mappingSnapshot,
          mappingVersion |-> input.mappingVersion,
          combinations |-> <<<<>>>>])

\* getAttempt(id, dir) is null
attemptMissing(dir, id) == id \notin DOMAIN dir

\* getAttempt(id, dir), for an id that has a file
getAttempt(dir, id) == dir[id]

\* updateAttempt(id, partial, dir): { ...attempt, ...partial }
updateAttempt(dir, id, partial) ==
  LET attempt == getAttempt(dir, id)
  IN MapSet(dir, id,
            [sourceText |-> attempt.sourceText,
             wordListId |-> attempt.wordListId,
             mappingSnapshot |-> IF "mappingSnapshot" \in DOMAIN partial
                                 THEN partial.mappingSnapshot
                                 ELSE attempt.mappingSnapshot,
             mappingVersion |-> IF "mappingVersion" \in DOMAIN partial
                                THEN partial.mappingVersion
                                ELSE attempt.mappingVersion,
             combinations |-> IF "combinations" \in DOMAIN partial
                              THEN partial.combinations
                              ELSE attempt.combinations])

\* deleteAttempt(id, dir)
deleteAttempt(dir, id) == MapDelete(dir, id)

\* array.splice(index, 1), for the 0-based index of an element
Splice(array, index) ==
  SubSeq(array, 1, index) \o SubSeq(array, index + 2, Len(array))

\* ci >= 0 && ci < combinations.length
inRange(ci, array) == ci >= 0 /\ ci < Len(array)

\* the test of DELETE /attempts/:id/combinations/:ci that never refuses
MustKeepNone(combinations) == FALSE

\* attempt.combinations.length <= 1
mustKeep(combinations) == Len(combinations) <= 1

\* the staleness test that compares the pairs
MappingStaleByPairs(currentMapping, attempt) ==
  currentMapping.pairs # attempt.mappingSnapshot

\* currentMapping.version !== attempt.mappingVersion
mappingStale(currentMapping, attempt) ==
  currentMapping.version # attempt.mappingVersion

\* What the requests of the model carry.
StoreTexts == {<<>>, <<"a">>}
ChooseWords == {<<"a">>, <<"b">>}
StoreCombinations == {<<>>, <<<<"a">>>>, <<<<"a">>, <<"b">>>>}
StoreForms ==
  {[from |-> <<"b">>, to |-> <<"a">>],
   [from |-> <<"a", " ">>, to |-> <<"b", "c">>]}

\* The indexes a request names for the array: each index the array has, and
\* its length for every index it does not have.
IndexValues(array) == 0..Len(array)

\* The routes the properties name.
PutRoute == "PUT /settings/mappings/:wordListId"
DeleteCombinationRoute == "DELETE /attempts/:id/combinations/:ci"

\* the list has at most two combinations, each one of those the model follows
Followed(combinations) ==
  /\ Len(combinations) <= 2
  /\ \A i \in 1..Len(combinations) : combinations[i] \in StoreCombinations

\* Bun.serve takes requests
Serving == handled.route # "off"

\* The server has started on empty data directories.
StoreInit ==
  /\ mappingDir = <<>>
  /\ attemptDir = <<>>
  /\ handled = NoRequest
  /\ saves = [w \in WordListIds |-> 0]
  /\ savedSince = [id \in AttemptIds |-> FALSE]
  /\ inflight = <<>>
  /\ applied = <<>>
  /\ form = NoForm
  /\ mappingFile = NoFile
  /\ normCall = NormIdle
  /\ poolCall = PoolIdle
  /\ vocab = <<>>
  /\ nodes = <<DAWGNode>>
  /\ trie = <<>>
  /\ dawgPc = "idle"
  /\ inserted = 0
  /\ compressed = "none"
  /\ call = NoCall

\* the answer to a request for an attempt that has no file
NotFound(route, id) ==
  /\ handled' = [NoRequest EXCEPT !.route = route, !.id = id, !.status = 404]
  /\ UNCHANGED <<mappingDir, attemptDir, saves, savedSince>>

\* POST /attempts
PostAttempts ==
  /\ Serving
  /\ \E sourceText \in StoreTexts, wordListId \in WordListIds \cup {""},
        id \in AttemptIds :
       IF sourceText = <<>> \/ wordListId = ""
       THEN /\ handled' = [NoRequest EXCEPT !.route = "POST /attempts",
                                             !.status = 400]
            /\ UNCHANGED <<attemptDir, savedSince>>
       ELSE /\ attemptMissing(attemptDir, id)
            /\ LET currentMapping == getMappingsOf(mappingDir, wordListId)
               IN attemptDir' = createAttempt(attemptDir, id,
                    [sourceText |-> sourceText,
                     wordListId |-> wordListId,
                     mappingSnapshot |-> currentMapping.pairs,
                     mappingVersion |-> currentMapping.version])
            /\ savedSince' = [savedSince EXCEPT ![id] = FALSE]
            /\ handled' = [NoRequest EXCEPT !.route = "POST /attempts", !.id = id,
                                             !.status = 204]
  /\ UNCHANGED <<mappingDir, saves, dawgVars, normVars, poolVars, requestVars>>

\* PUT /settings/mappings/:wordListId, on the directory of mapping files
PutSettingsMappings ==
  /\ Serving
  /\ \E wordListId \in WordListIds, f \in StoreForms :
       LET pairs == formPairs(f.from, f.to)
       IN /\ getMappingsOf(mappingDir, wordListId).version < MaxSaves
          /\ mappingDir' = saveMappingsOf(mappingDir, wordListId, pairs)
          /\ saves' = [saves EXCEPT ![wordListId] = @ + 1]
          /\ savedSince' =
               [id \in AttemptIds |->
                  \/ savedSince[id]
                  \/ /\ ~attemptMissing(attemptDir, id)
                     /\ getAttempt(attemptDir, id).wordListId = wordListId]
          /\ handled' = [NoRequest EXCEPT !.route = PutRoute,
                                          !.status = 200,
                                          !.wordListId = wordListId,
                                          !.pairs = pairs]
  /\ UNCHANGED <<attemptDir, dawgVars, normVars, poolVars, requestVars>>

\* a route that writes the attempt's combinations and renders combination ci;
\* rendering a combination that is not there throws, and index.ts answers 500
WriteCombinations(route, id, ci, combinations) ==
  /\ Followed(combinations)
  /\ attemptDir' = updateAttempt(attemptDir, id, [combinations |-> combinations])
  /\ handled' = [NoRequest EXCEPT
       !.route = route, !.id = id,
       !.status = IF inRange(ci, combinations) THEN 200 ELSE 500]
  /\ UNCHANGED <<mappingDir, saves, savedSince>>

\* POST /attempts/:id/choose
PostChoose ==
  /\ Serving
  /\ \E id \in AttemptIds :
       IF attemptMissing(attemptDir, id)
       THEN NotFound("POST /attempts/:id/choose", id)
       ELSE LET combinations == getAttempt(attemptDir, id).combinations
            IN \E word \in ChooseWords, ci \in IndexValues(combinations) :
                 WriteCombinations("POST /attempts/:id/choose", id, ci,
                   IF inRange(ci, combinations)
                   THEN [combinations EXCEPT ![ci + 1] = Append(@, word)]
                   ELSE combinations)
  /\ UNCHANGED <<dawgVars, normVars, poolVars, requestVars>>

\* DELETE /attempts/:id/chosen/:index?ci=
DeleteChosen ==
  /\ Serving
  /\ \E id \in AttemptIds :
       IF attemptMissing(attemptDir, id)
       THEN NotFound("DELETE /attempts/:id/chosen/:index", id)
       ELSE LET combinations == getAttempt(attemptDir, id).combinations
            IN \E ci \in IndexValues(combinations) :
                 \E index \in IndexValues(IF inRange(ci, combinations)
                                          THEN combinations[ci + 1] ELSE <<>>) :
                   WriteCombinations("DELETE /attempts/:id/chosen/:index", id, ci,
                     IF inRange(ci, combinations)
                        /\ inRange(index, combinations[ci + 1])
                     THEN [combinations EXCEPT ![ci + 1] = Splice(@, index)]
                     ELSE combinations)
  /\ UNCHANGED <<dawgVars, normVars, poolVars, requestVars>>

\* PUT /attempts/:id/chosen
PutChosen ==
  /\ Serving
  /\ \E id \in AttemptIds :
       IF attemptMissing(attemptDir, id)
       THEN NotFound("PUT /attempts/:id/chosen", id)
       ELSE LET combinations == getAttempt(attemptDir, id).combinations
            IN \E words \in StoreCombinations, ci \in IndexValues(combinations) :
                 WriteCombinations("PUT /attempts/:id/chosen", id, ci,
                   IF inRange(ci, combinations)
                   THEN [combinations EXCEPT ![ci + 1] = words]
                   ELSE combinations)
  /\ UNCHANGED <<dawgVars, normVars, poolVars, requestVars>>

\* POST /attempts/:id/combinations
PostCombinations ==
  /\ Serving
  /\ \E id \in AttemptIds :
       IF attemptMissing(attemptDir, id)
       THEN NotFound("POST /attempts/:id/combinations", id)
       ELSE LET combinations == Append(getAttempt(attemptDir, id).combinations, <<>>)
            IN WriteCombinations("POST /attempts/:id/combinations", id,
                                 Len(combinations) - 1, combinations)
  /\ UNCHANGED <<dawgVars, normVars, poolVars, requestVars>>

\* DELETE /attempts/:id/combinations/:ci
DeleteCombination ==
  /\ Serving
  /\ \E id \in AttemptIds :
       IF attemptMissing(attemptDir, id)
       THEN NotFound(DeleteCombinationRoute, id)
       ELSE LET attempt == getAttempt(attemptDir, id)
            IN \E ci \in IndexValues(attempt.combinations) :
               IF mustKeep(attempt.combinations)
               THEN /\ handled' = [NoRequest EXCEPT
                         !.route = DeleteCombinationRoute,
                         !.id = id, !.ci = ci, !.status = 400]
                    /\ UNCHANGED <<mappingDir, attemptDir, saves, savedSince>>
               ELSE /\ attemptDir' = updateAttempt(attemptDir, id,
                         [combinations |->
                            IF inRange(ci, attempt.combinations)
                            THEN Splice(attempt.combinations, ci)
                            ELSE attempt.combinations])
                    /\ handled' = [NoRequest EXCEPT
                         !.route = DeleteCombinationRoute,
                         !.id = id, !.ci = ci, !.status = 200]
                    /\ UNCHANGED <<mappingDir, saves, savedSince>>
  /\ UNCHANGED <<dawgVars, normVars, poolVars, requestVars>>

\* POST /attempts/:id/refresh-mapping
PostRefreshMapping ==
  /\ Serving
  /\ \E id \in AttemptIds :
       IF attemptMissing(attemptDir, id)
       THEN NotFound("POST /attempts/:id/refresh-mapping", id)
       ELSE LET attempt == getAttempt(attemptDir, id)
                currentMapping == getMappingsOf(mappingDir, attempt.wordListId)
            IN /\ attemptDir' = updateAttempt(attemptDir, id,
                    [mappingSnapshot |-> currentMapping.pairs,
                     mappingVersion |-> currentMapping.version])
               /\ savedSince' = [savedSince EXCEPT ![id] = FALSE]
               /\ handled' = [NoRequest EXCEPT
                    !.route = "POST /attempts/:id/refresh-mapping",
                    !.id = id, !.status = 200]
               /\ UNCHANGED <<mappingDir, saves>>
  /\ UNCHANGED <<dawgVars, normVars, poolVars, requestVars>>

\* DELETE /attempts/:id
DeleteAttempt ==
  /\ Serving
  /\ \E id \in AttemptIds :
       /\ attemptDir' = deleteAttempt(attemptDir, id)
       /\ savedSince' = [savedSince EXCEPT ![id] = FALSE]
       /\ handled' = [NoRequest EXCEPT !.route = "DELETE /attempts/:id", !.id = id,
                                       !.status = 200]
  /\ UNCHANGED <<mappingDir, saves, dawgVars, normVars, poolVars, requestVars>>

\* GET /attempts/:id, the workspace page
GetWorkspace ==
  /\ Serving
  /\ \E id \in AttemptIds :
       IF attemptMissing(attemptDir, id)
       THEN NotFound("GET /attempts/:id", id)
       ELSE LET attempt == getAttempt(attemptDir, id)
                currentMapping == getMappingsOf(mappingDir, attempt.wordListId)
            IN /\ handled' = [NoRequest EXCEPT
                    !.route = "GET /attempts/:id", !.id = id, !.status = 200,
                    !.stale = mappingStale(currentMapping, attempt)]
               /\ UNCHANGED <<mappingDir, attemptDir, saves, savedSince>>
  /\ UNCHANGED <<dawgVars, normVars, poolVars, requestVars>>

StoreNext ==
  \/ PostAttempts
  \/ PutSettingsMappings
  \/ PostChoose
  \/ DeleteChosen
  \/ PutChosen
  \/ PostCombinations
  \/ DeleteCombination
  \/ PostRefreshMapping
  \/ DeleteAttempt
  \/ GetWorkspace

SpecStore == StoreInit /\ [][StoreNext]_vars

----------------------------------------------------------------------------
(* Properties of the stores and their routes.                              *)

\* the version of every word list is the number of saves made for it, and a
\* list never saved has no pairs
VersionCountsSaves ==
  \A w \in WordListIds :
    /\ getMappingsOf(mappingDir, w).version = saves[w]
    /\ saves[w] = 0 => getMappingsOf(mappingDir, w) = [pairs |-> <<>>, version |-> 0]

\* a step that saves for w raises its version by 1 and stores the saved
\* pairs; every other step leaves what getMappings reports for w as it is
SaveStep ==
  \A w \in WordListIds :
    LET before == getMappingsOf(mappingDir, w)
        after == getMappingsOf(mappingDir', w)
    IN IF handled'.route = PutRoute /\ handled'.wordListId = w
       THEN /\ after.version = before.version + 1
            /\ after.pairs = handled'.pairs
       ELSE after = before

\* C18 - Mapping version counter: for every word list getMappings reports
\* version 0 and no pairs before any save; each saveMappings call for the list
\* raises its version by exactly 1 and replaces its pairs by the saved ones,
\* and leaves the version and pairs of every other list as they are; after n
\* saves the version is n.
C18_VersionCounter == []VersionCountsSaves /\ [][SaveStep]_vars

\* w1 saved twice and w2 never
C18_Witness ==
  /\ saves = [w \in WordListIds |-> IF w = "w1" THEN 2 ELSE 0]
  /\ handled.route = PutRoute
  /\ getMappingsOf(mappingDir, "w1") = [pairs |-> <<<<"a", "b">>>>, version |-> 2]
  /\ getMappingsOf(mappingDir, "w2") = [pairs |-> <<>>, version |-> 0]

\* the mapping now saved for the attempt's word list
CurrentOf(id) == getMappingsOf(mappingDir, getAttempt(attemptDir, id).wordListId)

\* the attempt holds the pairs and the version now saved for its word list
HoldsCurrent(id) ==
  /\ getAttempt(attemptDir, id).mappingSnapshot = CurrentOf(id).pairs
  /\ getAttempt(attemptDir, id).mappingVersion = CurrentOf(id).version

\* stale exactly when a save for the word list came since the creation or the
\* last refresh; the workspace page reports just that; right after the
\* creation and right after a refresh the attempt holds the current mapping
StaleIffSavedSince ==
  \A id \in DOMAIN attemptDir :
    /\ mappingStale(CurrentOf(id), getAttempt(attemptDir, id)) <=> savedSince[id]
    /\ (handled.route = "GET /attempts/:id" /\ handled.id = id)
         => (handled.stale <=> savedSince[id])
    /\ (handled.id = id /\ handled.status \in {200, 204}
         /\ handled.route \in {"POST /attempts", "POST /attempts/:id/refresh-mapping"})
         => HoldsCurrent(id)

\* a step that is not a refresh leaves the snapshot and its version alone
SnapshotFrozen ==
  \A id \in DOMAIN attemptDir \cap DOMAIN attemptDir' :
    handled'.route \notin {"POST /attempts/:id/refresh-mapping", "POST /attempts"}
      => /\ getAttempt(attemptDir', id).mappingSnapshot
              = getAttempt(attemptDir, id).mappingSnapshot
         /\ getAttempt(attemptDir', id).mappingVersion
              = getAttempt(attemptDir, id).mappingVersion

\* C19 - Frozen mapping snapshot and staleness: an attempt's mappingSnapshot
\* and mappingVersion are the pairs and version of its word list at creation
\* and only refresh-mapping changes them; the workspace marks the attempt
\* stale exactly when a saveMappings for its word list came since it was
\* created or last refreshed; right after refresh-mapping the snapshot and
\* version are the current ones.
C19_FrozenSnapshot == []StaleIffSavedSince /\ [][SnapshotFrozen]_vars

\* an attempt made at version 1 and shown after a second save of the same
\* pairs: it still holds version 1, and the page marks it stale
C19_Witness ==
  /\ handled.route = "GET /attempts/:id"
  /\ handled.stale
  /\ ~attemptMissing(attemptDir, "t1")
  /\ getAttempt(attemptDir, "t1").wordListId = "w1"
  /\ getAttempt(attemptDir, "t1").mappingVersion = 1
  /\ getAttempt(attemptDir, "t1").mappingSnapshot = <<<<"b", "a">>>>
  /\ getMappingsOf(mappingDir, "w1") = [pairs |-> <<<<"b", "a">>>>, version |-> 2]
  /\ getMappingsOf(mappingDir, "w2").version = 1

\* every attempt has a combination, and a new attempt has one, empty
HasCombination ==
  \A id \in DOMAIN attemptDir :
    /\ Len(getAttempt(attemptDir, id).combinations) >= 1
    /\ (handled.route = "POST /attempts" /\ handled.id = id)
         => getAttempt(attemptDir, id).combinations = <<<<>>>>

\* a delete-combination request with one combination left answers 400 and
\* leaves the attempt as stored; with more left, for a ci the list has, it
\* takes out the combination at ci and the later ones move down by one
DeleteCombinationStep ==
  \A id \in DOMAIN attemptDir :
    (handled'.route = DeleteCombinationRoute /\ handled'.id = id) =>
      LET before == getAttempt(attemptDir, id).combinations
          ci == handled'.ci
      IN IF Len(before) = 1
         THEN /\ handled'.status = 400
              /\ attemptDir' = attemptDir
         ELSE inRange(ci, before) =>
                LET after == getAttempt(attemptDir', id).combinations
                IN /\ handled'.status = 200
                   /\ Len(after) = Len(before) - 1
                   /\ \A j \in 1..Len(after) :
                        after[j] = IF j <= ci THEN before[j] ELSE before[j + 1]

\* C20 - At least one combination: an attempt is created with one empty
\* combination and has at least one after any sequence of route requests; a
\* delete-combination request made when one combination is left answers 400
\* and leaves the stored attempt unchanged; deleting combination ci when more
\* are left removes that one and moves the later ones down by one index.
C20_AtLeastOneCombination == []HasCombination /\ [][DeleteCombinationStep]_vars

\* combination 0 deleted: the combination "a b", once at index 1, is at
\* index 0 and is the only one
C20_Witness ==
  /\ handled.route = DeleteCombinationRoute
  /\ handled.status = 200
  /\ handled.ci = 0
  /\ ~attemptMissing(attemptDir, "t1")
  /\ getAttempt(attemptDir, "t1").combinations = <<<<<<"a">>, <<"b">>>>>>

----------------------------------------------------------------------------
(* Several requests for one attempt in flight in the one server process.   *)
(* A handler runs from where it is to its next await or to its return      *)
(* without another handler running in between; choose and reorder await    *)
(* req.formData() before they read the attempt, remove-word and            *)
(* add-combination await nothing.                                          *)

\* combinations[ci].push(word), if ci is in range
pushed(combinations, ci, word) ==
  IF inRange(ci, combinations)
  THEN [combinations EXCEPT ![ci + 1] = Append(@, word)] ELSE combinations

\* combinations[ci].splice(index, 1), if ci and index are in range
spliced(combinations, ci, index) ==
  IF inRange(ci, combinations) /\ inRange(index, combinations[ci + 1])
  THEN [combinations EXCEPT ![ci + 1] = Splice(@, index)] ELSE combinations

\* combinations[ci] = words, if ci is in range
reordered(combinations, ci, words) ==
  IF inRange(ci, combinations)
  THEN [combinations EXCEPT ![ci + 1] = words] ELSE combinations

\* [...attempt.combinations, []]
added(combinations) == Append(combinations, <<>>)

\* what the handler of the request makes of the combinations it read
changed(combinations, request) ==
  CASE request.kind = "choose" -> pushed(combinations, request.ci, request.word)
    [] request.kind = "remove" -> spliced(combinations, request.ci, request.index)
    [] request.kind = "reorder" -> reordered(combinations, request.ci, request.words)
    [] request.kind = "add" -> added(combinations)

\* the handlers that await req.formData() before they read the attempt
awaitsFormData(request) == request.kind \in {"choose", "reorder"}

\* const attempt = getAttempt(id) above the await: the handler works on the
\* attempt as it stood when the request came in
AttemptReadOnEntry(dir, entered, id) == getAttempt(entered, id)

\* const attempt = getAttempt(id), read when the handler runs on
attemptRead(dir, entered, id) == getAttempt(dir, id)

\* a request as it comes in: the route, with its ci, word, index and words
Request(kind, ci, word, index, words) ==
  [kind |-> kind, ci |-> ci, word |-> word, index |-> index, words |-> words,
   pc |-> "received", status |-> 0]

\* the requests sent together: two words for the first combination, a word
\* for the second, the first word taken away, a new order, a new combination
RequestSet ==
  {Request("choose", 0, <<"a">>, 0, <<>>), Request("choose", 0, <<"b">>, 0, <<>>),
   Request("choose", 1, <<"b">>, 0, <<>>), Request("remove", 0, <<>>, 0, <<>>),
   Request("reorder", 0, <<>>, 0, <<<<"b">>>>), Request("add", 0, <<>>, 0, <<>>)}

RequestLists == UNION {[1..n -> RequestSet] : n \in 1..MaxInFlight}

\* the combinations of the attempt when the requests come in
RequestStarts == {<<<<>>>>, <<<<<<"a">>>>>>}

StartAttempt ==
  [sourceText |-> <<"a">>, wordListId |-> "w1", mappingSnapshot |-> <<>>,
   mappingVersion |-> 0]

\* the attempt is on disk and the requests have come in together
RequestInit ==
  /\ mappingDir = <<>>
  /\ \E combinations \in RequestStarts :
       attemptDir = updateAttempt(createAttempt(<<>>, "t1", StartAttempt), "t1",
                                  [combinations |-> combinations])
  /\ handled = NotServing
  /\ saves = [w \in WordListIds |-> 0]
  /\ savedSince = [id \in AttemptIds |-> FALSE]
  /\ \E requests \in RequestLists :
       inflight = [r \in 1..Len(requests) |->
                     [kind |-> requests[r].kind, ci |-> requests[r].ci,
                      word |-> requests[r].word, index |-> requests[r].index,
                      words |-> requests[r].words, pc |-> "received",
                      status |-> 0, entered |-> attemptDir]]
  /\ applied = <<>>
  /\ form = NoForm
  /\ mappingFile = NoFile
  /\ normCall = NormIdle
  /\ poolCall = PoolIdle
  /\ vocab = <<>>
  /\ nodes = <<DAWGNode>>
  /\ trie = <<>>
  /\ dawgPc = "idle"
  /\ inserted = 0
  /\ compressed = "none"
  /\ call = NoCall

\* await req.formData(): the handler gives way to the other handlers
AwaitFormData ==
  /\ \E r \in 1..Len(inflight) :
       /\ inflight[r].pc = "received"
       /\ awaitsFormData(inflight[r])
       /\ inflight' = [inflight EXCEPT ![r].pc = "parsed"]
  /\ UNCHANGED <<mappingDir, attemptDir, handled, saves, savedSince, applied,
                 dawgVars, normVars, poolVars>>

\* the rest of the handler of request r, from getAttempt(id) to its return
Handle(r) ==
  LET request == inflight[r]
      id == "t1"
  IN IF attemptMissing(attemptDir, id)
     THEN /\ inflight' = [inflight EXCEPT ![r].pc = "done", ![r].status = 404]
          /\ UNCHANGED <<attemptDir, applied>>
     ELSE LET attempt == attemptRead(attemptDir, request.entered, id)
              combinations == changed(attempt.combinations, request)
          IN /\ attemptDir' = updateAttempt(attemptDir, id,
                                            [combinations |-> combinations])
             /\ applied' = Append(applied, r)
             /\ inflight' = [inflight EXCEPT ![r].pc = "done", ![r].status = 200]

\* POST /attempts/:id/choose, after its await
HandleChoose ==
  /\ \E r \in 1..Len(inflight) :
       /\ inflight[r].kind = "choose"
       /\ inflight[r].pc = "parsed"
       /\ Handle(r)
  /\ UNCHANGED <<mappingDir, handled, saves, savedSince, dawgVars, normVars, poolVars>>

\* DELETE /attempts/:id/chosen/:index
HandleRemove ==
  /\ \E r \in 1..Len(inflight) :
       /\ inflight[r].kind = "remove"
       /\ inflight[r].pc = "received"
       /\ Handle(r)
  /\ UNCHANGED <<mappingDir, handled, saves, savedSince, dawgVars, normVars, poolVars>>

\* PUT /attempts/:id/chosen, after its await
HandleReorder ==
  /\ \E r \in 1..Len(inflight) :
       /\ inflight[r].kind = "reorder"
       /\ inflight[r].pc = "parsed"
       /\ Handle(r)
  /\ UNCHANGED <<mappingDir, handled, saves, savedSince, dawgVars, normVars, poolVars>>

\* POST /attempts/:id/combinations
HandleAddCombination ==
  /\ \E r \in 1..Len(inflight) :
       /\ inflight[r].kind = "add"
       /\ inflight[r].pc = "received"
       /\ Handle(r)
  /\ UNCHANGED <<mappingDir, handled, saves, savedSince, dawgVars, normVars, poolVars>>

RequestNext ==
  AwaitFormData \/ HandleChoose \/ HandleRemove \/ HandleReorder
    \/ HandleAddCombination

SpecRequests == RequestInit /\ [][RequestNext]_vars

\* every request has been answered
AllAnswered ==
  /\ inflight # <<>>
  /\ \A r \in 1..Len(inflight) : inflight[r].pc = "done"

\* the combinations when the requests came in, and those on disk now
CombinationsAtStart == getAttempt(inflight[1].entered, "t1").combinations
CombinationsNow == getAttempt(attemptDir, "t1").combinations

\* the requests applied one after another in the order given
RECURSIVE OneAfterAnother(_, _)
OneAfterAnother(combinations, order) ==
  IF order = <<>> THEN combinations
  ELSE OneAfterAnother(changed(combinations, inflight[Head(order)]), Tail(order))

Orderings == {order \in [1..Len(inflight) -> 1..Len(inflight)] :
                \A i, j \in 1..Len(inflight) : order[i] = order[j] => i = j}

\* C30 - No lost updates between concurrent requests: when choose,
\* remove-word, reorder and add-combination requests for one attempt are in
\* flight together, the stored attempt after all of them is the result of
\* applying them one after another in some order; concurrent choose requests
\* for one combination all end up in it.
C30_NoLostUpdates ==
  AllAnswered =>
    /\ \E order \in Orderings :
         CombinationsNow = OneAfterAnother(CombinationsAtStart, order)
    /\ CombinationsNow = OneAfterAnother(CombinationsAtStart, applied)
    /\ (\A r \in 1..Len(inflight) : inflight[r].kind = "choose" /\ inflight[r].ci = 0)
         => /\ Len(CombinationsNow[1]) = Len(CombinationsAtStart[1]) + Len(inflight)
            /\ \A r \in 1..Len(inflight) :
                 \E i \in 1..Len(CombinationsNow[1]) :
                   CombinationsNow[1][i] = inflight[r].word

\* two choose requests came in together, the second was handled first, and
\* both words are in the combination
C30_Witness ==
  /\ AllAnswered
  /\ Len(inflight) = 2
  /\ inflight[1].kind = "choose" /\ inflight[1].word = <<"a">>
  /\ inflight[2].kind = "choose" /\ inflight[2].word = <<"b">>
  /\ applied = <<2, 1>>
  /\ CombinationsAtStart = <<<<>>>>
  /\ CombinationsNow = <<<<<<"b">>, <<"a">>>>>>

----------------------------------------------------------------------------
(* The whole program: its parts side by side.                              *)

Init ==
  DawgInit \/ DfsInit \/ NormInit \/ PoolInit \/ TextInit \/ StoreInit
    \/ RequestInit

Next ==
  DawgNext \/ DfsNext \/ NormNext \/ PoolNext \/ TextNext \/ StoreNext
    \/ RequestNext

Spec == Init /\ [][Next]_vars

====
